---- MODULE Spec2Model ----
(***************************************************************************)
(* Editing core of silent-edit: the Buffer (line store with a snapshot     *)
(* history), the Selection (range set with a primary range, atomic         *)
(* multi-range replace) and the Clipboard, modelled from src/src.          *)
(* Rows, columns and indices are 0-based as in the JavaScript source; a    *)
(* line is a sequence of one-character strings; a text is a sequence of    *)
(* characters in which NL separates lines.                                 *)
(***************************************************************************)
EXTENDS Integers, Sequences, FiniteSets, TLC

VARIABLES
  lines,         \* Buffer.lines
  filename,      \* Buffer.filename
  modified,      \* Buffer.modified
  history,       \* Buffer.history: sequence of snapshots of lines
  historyIndex,  \* Buffer.historyIndex
  cursor,        \* Cursor: [row, col]
  preferredCol,  \* Cursor.preferredCol
  ranges,        \* Selection.ranges: sequence of [ar, ac, hr, hc]
  primaryIndex,  \* Selection.primaryIndex
  range,         \* a SelectionRange held outside the selection
  clip,          \* Clipboard: [content, isLinewise]
  scan,          \* addNextOccurrence while it runs: the loop it is in and
                 \* its locals row, col, loop, searchText, visited, originalKey
  synced,        \* the text the last successful loadFile read or saveFile
                 \* wrote, if there was one
  overlay,       \* OverlayHost.activeComponent
  tasks,         \* the async calls of the editor that wait at an await
  exited,        \* process.exit was called
  op,            \* name of the operation that made the last step
  ret,           \* what that operation returned
  arg,           \* the callback results a replaceRanges step was called with
  dropped        \* history entries the snapshot of that step cut off the end

vars == <<lines, filename, modified, history, historyIndex, cursor,
          preferredCol, ranges, primaryIndex, range, clip, scan, synced,
          overlay, tasks, exited, op, ret, arg, dropped>>
bufVars == <<lines, modified, history, historyIndex>>

\* ------------------------------------------------------------------ bounds

\* Snapshots an exploration may hold in the history (the program's own cap
\* is maxHistory).
MaxHist == 2
\* Snapshots in the exploration of one selection edit.
RepHist == 1
\* Rows and columns a buffer may grow to in an exploration.
MaxRows == 3
MaxCols == 3
\* Ranges addRange may grow the set to.
MaxRanges == 2
\* Longest line in which occurrences are looked for.
MaxOccCols == 5
\* Largest row and column of a SelectionRange explored on its own.
RangeRows == 2
RangeCols == 2
\* Longest line the cap exploration types (it must pass maxHistory).
CapLen == 102

\* Rows, columns and clipboard length of the exploration with the clipboard.
ClipRows == 2
ClipCols == 2
ClipLen == 3

maxHistory == 100

\* ------------------------------------------------------------ JS strings

NL == "\n"
HOLE == <<"undefined">>

Min(a, b) == IF a < b THEN a ELSE b
Max(a, b) == IF a > b THEN a ELSE b
Clamp(x, lo, hi) == Max(lo, Min(x, hi))

\* String.prototype.substring(a, b): both ends clamped to the string, and
\* swapped when a > b.
Substring(s, a, b) ==
  LET x == Clamp(a, 0, Len(s))
      y == Clamp(b, 0, Len(s))
  IN  SubSeq(s, Min(x, y) + 1, Max(x, y))

\* String.prototype.slice(a, b) for a, b >= 0: clamped, empty when a > b.
Slice(s, a, b) == SubSeq(s, Clamp(a, 0, Len(s)) + 1, Clamp(b, 0, Len(s)))

SliceFrom(s, a) == Slice(s, a, Len(s))

\* text.split("\n")
RECURSIVE Split(_)
Split(t) ==
  IF \A i \in 1..Len(t) : t[i] # NL THEN <<t>>
  ELSE LET k == CHOOSE i \in 1..Len(t) :
                  t[i] = NL /\ \A j \in 1..(i - 1) : t[j] # NL
       IN  <<SubSeq(t, 1, k - 1)>> \o Split(SubSeq(t, k + 1, Len(t)))

\* What a line reads as when it is joined or read through getLine: a hole
\* of a sparse array reads as the empty string.
Str(l) == IF l = HOLE THEN <<>> ELSE l

\* parts.join("\n")
RECURSIVE Join(_)
Join(ls) ==
  IF Len(ls) = 0 THEN <<>>
  ELSE IF Len(ls) = 1 THEN Str(ls[1])
  ELSE Str(ls[1]) \o <<NL>> \o Join(Tail(ls))

\* ------------------------------------------------------------ JS arrays

\* lines[row] = v: an assignment past the end leaves holes before it.
SetLine(ls, row, v) ==
  IF row < Len(ls) THEN [ls EXCEPT ![row + 1] = v]
  ELSE ls \o [i \in 1..(row - Len(ls)) |-> HOLE] \o <<v>>

\* lines.splice(start, deleteCount, ...items)
Splice(ls, start, deleteCount, items) ==
  LET s == Clamp(start, 0, Len(ls))
      d == Clamp(deleteCount, 0, Len(ls) - s)
  IN  SubSeq(ls, 1, s) \o items \o SubSeq(ls, s + d + 1, Len(ls))

\* ---------------------------------------------------------------- Buffer

getLine(ls, row) ==
  IF row >= 0 /\ row < Len(ls) THEN Str(ls[row + 1]) ELSE <<>>

getLineCount(ls) == Len(ls)

\* A variant that keeps the entries behind the index.
saveToHistoryKeepingRedo(h, idx, ls) ==
  LET pushed == Append(h, ls)
      capped == IF Len(pushed) > maxHistory THEN Tail(pushed) ELSE pushed
  IN  [history |-> capped, historyIndex |-> Len(capped) - 1]

\* A variant that gives up the newest entry, not the oldest, at the cap.
saveToHistoryPop(h, idx, ls) ==
  LET cut == IF idx < Len(h) - 1 THEN SubSeq(h, 1, idx + 1) ELSE h
      pushed == Append(cut, ls)
      capped == IF Len(pushed) > maxHistory THEN SubSeq(pushed, 1, maxHistory)
                ELSE pushed
  IN  [history |-> capped, historyIndex |-> Len(capped) - 1]

\* saveToHistory(): [history, historyIndex] after a snapshot of ls.
saveToHistory(h, idx, ls) ==
  LET cut == IF idx < Len(h) - 1 THEN SubSeq(h, 1, idx + 1) ELSE h
      pushed == Append(cut, ls)
      capped == IF Len(pushed) > maxHistory THEN Tail(pushed) ELSE pushed
  IN  [history |-> capped, historyIndex |-> Len(capped) - 1]

\* The lines insertChar(row, col, char) leaves.
insertCharLines(ls, row, col, ch) ==
  LET padded == IF row >= Len(ls)
                THEN ls \o [i \in 1..(row - Len(ls) + 1) |-> <<>>]
                ELSE ls
      line == padded[row + 1]
  IN  [padded EXCEPT ![row + 1] =
         Slice(line, 0, col) \o ch \o SliceFrom(line, col)]

\* The lines deleteChar(row, col) leaves when it returns true.
deleteCharLines(ls, row, col) ==
  LET line == ls[row + 1]
  IN  IF col > 0
      THEN [ls EXCEPT ![row + 1] = Slice(line, 0, col - 1) \o SliceFrom(line, col)]
      ELSE Splice([ls EXCEPT ![row] = ls[row] \o line], row, 1, <<>>)

\* The lines insertLine(row, col) leaves.
insertLineLines(ls, row, col) ==
  LET currentLine == getLine(ls, row)
  IN  Splice(SetLine(ls, row, Slice(currentLine, 0, col)), row + 1, 0,
             <<SliceFrom(currentLine, col)>>)

\* this.filename = null: no path, and falsy as the empty path is.
null == "null"

\* The argument of a call that passes none.
undefined == "undefined"

\* The path of the file the explorations open.
DefaultPath == "a.txt"

\* No loadFile or saveFile has succeeded yet.
neverSynced == [ever |-> FALSE, content |-> <<>>]

\* The file and the buffer held that content when the call succeeded.
syncedWith(content) == [ever |-> TRUE, content |-> content]

\* loadFile(filepath): readFile resolves with content, or rejects.
loadFile(ls, fn, md, h, idx, sy, filepath, content, resolves) ==
  IF resolves
  THEN [ret |-> TRUE, lines |-> Split(content), filename |-> filepath,
        modified |-> FALSE, history |-> <<>>, historyIndex |-> -1,
        synced |-> syncedWith(content)]
  ELSE [ret |-> FALSE, lines |-> ls, filename |-> fn, modified |-> md,
        history |-> h, historyIndex |-> idx, synced |-> sy]

\* A variant that marks the buffer saved also when writeFile rejects.
saveFileMarkingSaved(ls, fn, md, sy, filepath, resolves) ==
  LET path == IF filepath = undefined THEN fn ELSE filepath
  IN  IF path = null \/ path = ""
      THEN [ret |-> FALSE, filename |-> fn, modified |-> md, synced |-> sy]
      ELSE [ret |-> resolves, filename |-> IF resolves THEN path ELSE fn,
            modified |-> FALSE,
            synced |-> IF resolves THEN syncedWith(Join(ls)) ELSE sy]

\* saveFile(filepath = this.filename): writeFile resolves or rejects.
saveFile(ls, fn, md, sy, filepath, resolves) ==
  LET path == IF filepath = undefined THEN fn ELSE filepath
  IN  IF path = null \/ path = ""
      THEN [ret |-> FALSE, filename |-> fn, modified |-> md, synced |-> sy]
      ELSE IF resolves
           THEN [ret |-> TRUE, filename |-> path, modified |-> FALSE,
                 synced |-> syncedWith(Join(ls))]
           ELSE [ret |-> FALSE, filename |-> fn, modified |-> md,
                 synced |-> sy]

canRedo(h, idx) == idx < Len(h) - 1

\* A variant that also goes back from the first entry, to that entry.
undoFromFirst(h, idx, ls) ==
  IF idx > 0
  THEN [ret |-> TRUE, historyIndex |-> idx - 1, lines |-> h[idx]]
  ELSE IF idx = 0
  THEN [ret |-> TRUE, historyIndex |-> 0, lines |-> h[1]]
  ELSE [ret |-> FALSE, historyIndex |-> idx, lines |-> ls]

\* undo(): the return value, historyIndex and lines afterwards.
undo(h, idx, ls) ==
  IF idx > 0
  THEN [ret |-> TRUE, historyIndex |-> idx - 1, lines |-> h[idx]]
  ELSE [ret |-> FALSE, historyIndex |-> idx, lines |-> ls]

\* redo(): the return value, historyIndex and lines afterwards.
redo(h, idx, ls) ==
  IF idx < Len(h) - 1
  THEN [ret |-> TRUE, historyIndex |-> idx + 1, lines |-> h[idx + 2]]
  ELSE [ret |-> FALSE, historyIndex |-> idx, lines |-> ls]


\* -------------------------------------------------------- SelectionRange

Range(ar, ac, hr, hc) == [ar |-> ar, ac |-> ac, hr |-> hr, hc |-> hc]

fromCursor(c) == Range(c.row, c.col, c.row, c.col)

isEmpty(r) == r.ar = r.hr /\ r.ac = r.hc

Bounds(sr, sc, er, ec) ==
  [startRow |-> sr, startCol |-> sc, endRow |-> er, endCol |-> ec]

\* A variant that takes the anchor for the start whatever the head is.
getBoundsAnchorFirst(r) == Bounds(r.ar, r.ac, r.hr, r.hc)

getBounds(r) ==
  IF r.ar < r.hr \/ (r.ar = r.hr /\ r.ac <= r.hc)
  THEN Bounds(r.ar, r.ac, r.hr, r.hc)
  ELSE Bounds(r.hr, r.hc, r.ar, r.ac)

\* A variant that takes the end position in.
containsClosed(r, row, col) ==
  LET b == getBounds(r)
  IN  IF row < b.startRow \/ row > b.endRow THEN FALSE
      ELSE IF row = b.startRow /\ col < b.startCol THEN FALSE
      ELSE IF row = b.endRow /\ col > b.endCol THEN FALSE
      ELSE TRUE

contains(r, row, col) ==
  LET b == getBounds(r)
  IN  IF row < b.startRow \/ row > b.endRow THEN FALSE
      ELSE IF row = b.startRow /\ col < b.startCol THEN FALSE
      ELSE IF row = b.endRow /\ col >= b.endCol THEN FALSE
      ELSE TRUE

\* ------------------------------------------------------------- Selection

active(rs) == Len(rs) > 0

hasContentSelection(rs) == \E i \in 1..Len(rs) : ~isEmpty(rs[i])

\* The comparator of sortRanges and getOrderedRanges: negative, zero or
\* positive.
compareRanges(a, b) ==
  IF getBounds(a).startRow # getBounds(b).startRow
  THEN getBounds(a).startRow - getBounds(b).startRow
  ELSE getBounds(a).startCol - getBounds(b).startCol

\* Array.prototype.sort with that comparator is stable: an element goes
\* after every element that does not compare greater.
RECURSIVE insertStable(_, _)
insertStable(sorted, r) ==
  IF Len(sorted) = 0 THEN <<r>>
  ELSE IF compareRanges(sorted[Len(sorted)], r) <= 0 THEN Append(sorted, r)
  ELSE Append(insertStable(SubSeq(sorted, 1, Len(sorted) - 1), r),
              sorted[Len(sorted)])

RECURSIVE sortRanges(_)
sortRanges(rs) ==
  IF Len(rs) = 0 THEN <<>>
  ELSE insertStable(sortRanges(SubSeq(rs, 1, Len(rs) - 1)), rs[Len(rs)])

getOrderedRanges(rs) == sortRanges(rs)

\* this.ranges.indexOf(cloned) after push(cloned) and sortRanges(): the
\* pushed object lands behind every range that does not compare greater.
indexAfterPush(rs, r) ==
  Cardinality({i \in 1..Len(rs) : compareRanges(rs[i], r) <= 0})

\* primaryRange is null unless primaryIndex is an index of ranges.
hasPrimaryRange(rs, pidx) == ~(pidx < 0 \/ pidx >= Len(rs))

primaryRange(rs, pidx) == rs[pidx + 1]

\* setRanges(ranges, primaryIndex): [ranges, primaryIndex] afterwards.
setRanges(rs, pidx) ==
  IF Len(rs) = 0 THEN [ranges |-> <<>>, primaryIndex |-> -1]
  ELSE [ranges |-> sortRanges(rs),
        primaryIndex |-> IF pidx < 0 \/ pidx >= Len(rs) THEN Len(rs) - 1
                         ELSE pidx]

_getTextForBounds(ls, b) ==
  IF b.startRow = b.endRow
  THEN Substring(getLine(ls, b.startRow), b.startCol, b.endCol)
  ELSE Join(<<Substring(getLine(ls, b.startRow), b.startCol,
                        Len(getLine(ls, b.startRow)))>>
            \o [i \in 1..(b.endRow - b.startRow - 1) |->
                  getLine(ls, b.startRow + i)]
            \o <<Substring(getLine(ls, b.endRow), 0, b.endCol)>>)

_normalizeBounds(b) ==
  IF b.startRow < b.endRow \/ (b.startRow = b.endRow /\ b.startCol <= b.endCol)
  THEN b
  ELSE Bounds(b.endRow, b.endCol, b.startRow, b.startCol)

_isEmptyBounds(b) == b.startRow = b.endRow /\ b.startCol = b.endCol

\* The lines _deleteBounds(bounds) leaves.
_deleteBounds(ls, b) ==
  IF b.startRow = b.endRow
  THEN SetLine(ls, b.startRow,
               Substring(getLine(ls, b.startRow), 0, b.startCol)
               \o Substring(getLine(ls, b.startRow), b.endCol,
                            Len(getLine(ls, b.startRow))))
  ELSE Splice(SetLine(ls, b.startRow,
                      Substring(getLine(ls, b.startRow), 0, b.startCol)
                      \o Substring(getLine(ls, b.endRow), b.endCol,
                                   Len(getLine(ls, b.endRow)))),
              b.startRow + 1, b.endRow - b.startRow, <<>>)

\* _insertTextAt(row, col, text): the lines it leaves and the position it
\* returns.
_insertTextAt(ls, row, col, text) ==
  IF Len(text) = 0 THEN [lines |-> ls, row |-> row, col |-> col]
  ELSE
    LET padded == IF Len(ls) <= row
                  THEN ls \o [i \in 1..(row + 1 - Len(ls)) |-> <<>>]
                  ELSE ls
        originalLine == Str(padded[row + 1])
        before == Slice(originalLine, 0, col)
        after == SliceFrom(originalLine, col)
        parts == Split(text)
        n == Len(parts)
    IN  IF n = 1
        THEN [lines |-> [padded EXCEPT ![row + 1] = before \o parts[1] \o after],
              row |-> row, col |-> col + Len(parts[1])]
        ELSE [lines |->
                Splice([padded EXCEPT ![row + 1] = before \o parts[1]],
                       row + 1, 0,
                       [i \in 1..(n - 1) |->
                          IF i = n - 1 THEN parts[n] \o after ELSE parts[i + 1]]),
              row |-> row + n - 1, col |-> Len(parts[n])]


\* Cursor.moveLeft(): the cursor and preferredCol afterwards.
moveLeft(ls, c, pc) ==
  IF c.col > 0
  THEN [cursor |-> [c EXCEPT !.col = c.col - 1], preferredCol |-> c.col - 1]
  ELSE IF c.row > 0
  THEN [cursor |-> [c EXCEPT !.row = c.row - 1,
                             !.col = Len(getLine(ls, c.row - 1))],
        preferredCol |-> Len(getLine(ls, c.row - 1))]
  ELSE [cursor |-> c, preferredCol |-> pc]

\* Cursor.moveRight()
moveRight(ls, c, pc) ==
  IF c.col < Len(getLine(ls, c.row))
  THEN [cursor |-> [c EXCEPT !.col = c.col + 1], preferredCol |-> c.col + 1]
  ELSE IF c.row < getLineCount(ls) - 1
  THEN [cursor |-> [c EXCEPT !.row = c.row + 1, !.col = 0], preferredCol |-> 0]
  ELSE [cursor |-> c, preferredCol |-> pc]

\* Cursor.clamp()
clamp(c, ls) ==
  LET row == Max(0, Min(c.row, getLineCount(ls) - 1))
  IN  [c EXCEPT !.row = row,
                !.col = Max(0, Min(c.col, Len(getLine(ls, row))))]

\* A Position: a row of the buffer and a column in or at the end of its line.
isPosition(ls, row, col) ==
  /\ 0 <= row /\ row < getLineCount(ls)
  /\ 0 <= col /\ col <= Len(getLine(ls, row))


\* ------------------------------------------- selectWord, addNextOccurrence

\* The characters of the explored texts that /\w/ matches.
WordChars == {"a", "b"}

\* /\w/.test(line[i]): an index outside the line reads undefined, which
\* test() takes as the string "undefined".
isWordAt(line, i) ==
  IF i >= 0 /\ i < Len(line) THEN line[i + 1] \in WordChars ELSE TRUE

\* while (start > 0 && test(line[start - 1])) start--, test being /\w/
\* (word = TRUE) or its negation.
RECURSIVE scanBack(_, _, _)
scanBack(line, start, word) ==
  IF start > 0 /\ (isWordAt(line, start - 1) <=> word)
  THEN scanBack(line, start - 1, word)
  ELSE start

\* while (end < line.length && test(line[end])) end++
RECURSIVE scanAhead(_, _, _)
scanAhead(line, end, word) ==
  IF end < Len(line) /\ (isWordAt(line, end) <=> word)
  THEN scanAhead(line, end + 1, word)
  ELSE end

\* selectWord(): the return value and the selection and cursor left.
selectWord(ls, c) ==
  LET line == getLine(ls, c.row)
      onWord == c.col < Len(line) /\ isWordAt(line, c.col)
      start == IF onWord THEN scanBack(line, c.col, TRUE)
               ELSE scanBack(line, scanBack(line, c.col, FALSE), TRUE)
      end == IF onWord THEN scanAhead(line, c.col, TRUE)
             ELSE scanAhead(line, scanAhead(line, c.col, FALSE), TRUE)
  IN  IF Len(line) > 0 /\ start < end
      THEN [ret |-> TRUE,
            ranges |-> setRanges(<<Range(c.row, start, c.row, end)>>, 0).ranges,
            primaryIndex |->
              setRanges(<<Range(c.row, start, c.row, end)>>, 0).primaryIndex,
            cursor |-> [c EXCEPT !.col = end]]
      ELSE [ret |-> FALSE, ranges |-> <<>>, primaryIndex |-> -1, cursor |-> c]

\* line.indexOf(searchText, fromIndex) for a searchText that is not empty.
indexOf(line, searchText, fromIndex) ==
  LET at == {i \in Max(0, fromIndex)..(Len(line) - Len(searchText)) :
               SubSeq(line, i + 1, i + Len(searchText)) = searchText}
  IN  IF at = {} THEN -1 ELSE CHOOSE i \in at : \A j \in at : i <= j

NoMatch == [found |-> FALSE]
Match(row, index) == [found |-> TRUE, row |-> row, index |-> index]

visitKey(r, c) == <<r, c>>

\* The start positions of the ranges: new Set(this.ranges.map(...)).
visitedOf(rs) ==
  {visitKey(getBounds(rs[i]).startRow, getBounds(rs[i]).startCol) :
     i \in 1..Len(rs)}

\* A variant that does not look into the visited set.
RECURSIVE searchForwardAgain(_, _, _, _, _)
searchForwardAgain(ls, searchText, visited, row, col) ==
  IF ~(row < getLineCount(ls)) THEN NoMatch
  ELSE LET index == indexOf(getLine(ls, row), searchText, col)
       IN  IF index # -1 THEN Match(row, index)
           ELSE searchForwardAgain(ls, searchText, visited, row + 1, 0)

\* searchForward(): the first match from (row, col) on that is not visited,
\* the scan going on behind a visited match.
RECURSIVE searchForward(_, _, _, _, _)
searchForward(ls, searchText, visited, row, col) ==
  IF ~(row < getLineCount(ls)) THEN NoMatch
  ELSE LET index == indexOf(getLine(ls, row), searchText, col)
       IN  IF index # -1
           THEN IF visitKey(row, index) \notin visited THEN Match(row, index)
                ELSE searchForward(ls, searchText, visited, row,
                                   index + Max(1, Len(searchText)))
           ELSE searchForward(ls, searchText, visited, row + 1, 0)

\* A variant that goes on over originalKey and takes a match there.
searchWrappedPast(ls, searchText, visited, originalKey, row, col) ==
  searchForward(ls, searchText, visited \ {originalKey}, row, col)

\* The loop that scans from the document start and breaks at originalKey.
RECURSIVE searchWrapped(_, _, _, _, _, _)
searchWrapped(ls, searchText, visited, originalKey, row, col) ==
  IF ~(row < getLineCount(ls)) THEN NoMatch
  ELSE LET index == indexOf(getLine(ls, row), searchText, col)
       IN  IF index = -1
           THEN searchWrapped(ls, searchText, visited, originalKey, row + 1, 0)
           ELSE IF visitKey(row, index) = originalKey THEN NoMatch
           ELSE IF visitKey(row, index) \notin visited THEN Match(row, index)
           ELSE searchWrapped(ls, searchText, visited, originalKey, row,
                              index + Max(1, Len(searchText)))

\* The match addNextOccurrence settles on.
nextOccurrence(ls, rs, pidx, loop) ==
  LET primaryBounds == getBounds(primaryRange(rs, pidx))
      searchText == _getTextForBounds(ls, primaryBounds)
      forward == searchForward(ls, searchText, visitedOf(rs),
                               primaryBounds.endRow, primaryBounds.endCol)
  IN  IF forward.found \/ ~loop THEN forward
      ELSE searchWrapped(ls, searchText, visitedOf(rs),
                         visitKey(primaryBounds.startRow, primaryBounds.startCol),
                         0, 0)

\* The candidate is pushed, the ranges are sorted, it becomes the primary
\* range and the cursor goes to its head.
occurrenceAdded(ls, rs, c, candidate) ==
  [ret |-> TRUE,
   ranges |-> sortRanges(Append(rs, candidate)),
   primaryIndex |-> indexAfterPush(rs, candidate),
   cursor |-> clamp([c EXCEPT !.row = candidate.hr, !.col = candidate.hc], ls)]

\* addNextOccurrence({loop}): the return value and the selection and cursor
\* left.
addNextOccurrence(ls, rs, pidx, c, loop) ==
  IF ~active(rs) THEN selectWord(ls, c)
  ELSE IF ~hasPrimaryRange(rs, pidx)
          \/ Len(_getTextForBounds(ls, getBounds(primaryRange(rs, pidx)))) = 0
          \/ ~nextOccurrence(ls, rs, pidx, loop).found
  THEN [ret |-> FALSE, ranges |-> rs, primaryIndex |-> pidx, cursor |-> c]
  ELSE occurrenceAdded(ls, rs, c,
         Range(nextOccurrence(ls, rs, pidx, loop).row,
               nextOccurrence(ls, rs, pidx, loop).index,
               nextOccurrence(ls, rs, pidx, loop).row,
               nextOccurrence(ls, rs, pidx, loop).index
                 + Len(_getTextForBounds(ls, getBounds(primaryRange(rs, pidx))))))

\* A variant that goes on at the match itself.
sameCol(index, searchText) == index

\* col = index + Math.max(1, searchText.length)
nextCol(index, searchText) == index + Max(1, Len(searchText))

\* ---------------------------------------------------- replaceRanges

\* What a getReplacement callback may return for one range: null, a plain
\* string, or an object {text, bounds}.
Null == [kind |-> "null"]
Text(t) == [kind |-> "string", text |-> t]
TextAt(t, b) == [kind |-> "object", text |-> t, bounds |-> b]

\* A variant without the test for null: a null result is performed as the
\* empty replacement of the range.
makeActionOfNull(r, result) ==
  [perform |-> TRUE, bounds |-> getBounds(r),
   text |-> IF result.kind = "null" THEN <<>> ELSE result.text]

\* The action the map over the ordered ranges makes of one result.
makeAction(r, result) ==
  IF result.kind = "null"
  THEN [perform |-> FALSE, bounds |-> getBounds(r), text |-> <<>>]
  ELSE LET targetBounds == IF result.kind = "object" THEN result.bounds
                           ELSE getBounds(r)
           normalizedBounds == _normalizeBounds(targetBounds)
       IN  [perform |-> ~_isEmptyBounds(normalizedBounds) \/ Len(result.text) > 0,
            bounds |-> normalizedBounds,
            text |-> result.text]

makeActions(rs, cb) ==
  [i \in 1..Len(rs) |-> makeAction(getOrderedRanges(rs)[i], cb[i])]

\* One turn of the loop over the actions: the lines it leaves and the
\* action's newPosition.
applyAction(ls, a) ==
  IF ~a.perform
  THEN [lines |-> ls, row |-> a.bounds.startRow, col |-> a.bounds.startCol]
  ELSE _insertTextAt(IF ~_isEmptyBounds(a.bounds) THEN _deleteBounds(ls, a.bounds)
                     ELSE ls,
                     a.bounds.startRow, a.bounds.startCol, a.text)

\* A variant of the loop that applies the actions first to last.
RECURSIVE applyFrom(_, _, _)
applyFrom(ls, actions, k) ==
  IF k > Len(actions) THEN [lines |-> ls, pos |-> <<>>]
  ELSE LET step == applyAction(ls, actions[k])
           rest == applyFrom(step.lines, actions, k + 1)
       IN  [lines |-> rest.lines,
            pos |-> <<[row |-> step.row, col |-> step.col]>> \o rest.pos]

applyActionsAscending(ls, actions, i) == applyFrom(ls, actions, 1)

\* for (let i = actions.length - 1; i >= 0; i--): actions 1..i are still
\* to be applied, last first.
RECURSIVE applyActions(_, _, _)
applyActions(ls, actions, i) ==
  IF i = 0 THEN [lines |-> ls, pos |-> <<>>]
  ELSE LET step == applyAction(ls, actions[i])
           rest == applyActions(step.lines, actions, i - 1)
       IN  [lines |-> rest.lines,
            pos |-> Append(rest.pos, [row |-> step.row, col |-> step.col])]

\* A variant that takes the last range when there is a primary range too.
findLastIndex(rs, pidx) == Len(rs) - 1

\* orderedKeys.findIndex((key) => key === primaryKey), 0-based: two bounds
\* keys are equal exactly when the bounds are.
findPrimaryIndex(rs, pidx) ==
  LET ordered == getOrderedRanges(rs)
      primaryBounds == getBounds(primaryRange(rs, pidx))
  IN  (CHOOSE i \in 1..Len(ordered) :
         /\ getBounds(ordered[i]) = primaryBounds
         /\ \A j \in 1..(i - 1) : getBounds(ordered[j]) # primaryBounds) - 1

\* A variant that takes a snapshot for every action it performs.
RECURSIVE savePerAction(_, _, _, _)
savePerAction(h, idx, ls, actions) ==
  IF Len(actions) = 0 THEN [history |-> h, historyIndex |-> idx]
  ELSE LET rest == savePerAction(h, idx, ls, SubSeq(actions, 1, Len(actions) - 1))
       IN  IF actions[Len(actions)].perform
           THEN saveToHistory(rest.history, rest.historyIndex, ls)
           ELSE rest

\* this.buffer.saveToHistory() of replaceRanges: one snapshot for the whole
\* batch of actions, before the first of them is applied.
saveBatch(h, idx, ls, actions) == saveToHistory(h, idx, ls)

\* The end of replaceRanges: the new ranges are set, and the cursor is put
\* at the head of the primary one and clamped.
collapsed(saved, left, set, c) ==
  [ret |-> TRUE, lines |-> left, history |-> saved.history,
   historyIndex |-> saved.historyIndex, modified |-> TRUE,
   ranges |-> set.ranges, primaryIndex |-> set.primaryIndex,
   cursor |-> clamp([c EXCEPT
                       !.row = primaryRange(set.ranges, set.primaryIndex).hr,
                       !.col = primaryRange(set.ranges, set.primaryIndex).hc],
                    left)]

\* actions.map(... fromPositions(newPosition ...))
newRanges(pos) ==
  [i \in 1..Len(pos) |-> Range(pos[i].row, pos[i].col, pos[i].row, pos[i].col)]

\* replaceRanges once the actions are made.
replaceActions(ls, h, idx, md, rs, pidx, c, actions) ==
  IF ~active(rs) \/ ~(\E i \in 1..Len(actions) : actions[i].perform)
  THEN [ret |-> FALSE, lines |-> ls, history |-> h, historyIndex |-> idx,
        modified |-> md, ranges |-> rs, primaryIndex |-> pidx, cursor |-> c]
  ELSE collapsed(saveBatch(h, idx, ls, actions),
                 applyActions(ls, actions, Len(actions)).lines,
                 setRanges(newRanges(applyActions(ls, actions, Len(actions)).pos),
                           IF hasPrimaryRange(rs, pidx)
                           THEN findPrimaryIndex(rs, pidx)
                           ELSE Len(actions) - 1),
                 c)

\* replaceRanges(getReplacement), cb[i] being what the callback returns for
\* the i-th range in ascending order: the return value and the state left.
replaceRanges(ls, h, idx, md, rs, pidx, c, cb) ==
  replaceActions(ls, h, idx, md, rs, pidx, c, makeActions(rs, cb))

\* A variant that skips a range at column 0 on every row.
deleteBackwardInRow(ls, r) ==
  LET b == getBounds(r)
  IN  IF ~isEmpty(r) THEN TextAt(<<>>, b)
      ELSE IF b.startCol > 0
      THEN TextAt(<<>>, Bounds(b.startRow, b.startCol - 1, b.startRow, b.startCol))
      ELSE Null

\* The callback of deleteBackward.
deleteBackwardResult(ls, r) ==
  LET b == getBounds(r)
  IN  IF ~isEmpty(r) THEN TextAt(<<>>, b)
      ELSE IF b.startCol > 0
      THEN TextAt(<<>>, Bounds(b.startRow, b.startCol - 1, b.startRow, b.startCol))
      ELSE IF b.startRow = 0 THEN Null
      ELSE TextAt(<<>>, Bounds(b.startRow - 1, Len(getLine(ls, b.startRow - 1)),
                               b.startRow, b.startCol))

\* The callback of deleteForward.
deleteForwardResult(ls, r) ==
  LET b == getBounds(r)
  IN  IF ~isEmpty(r) THEN TextAt(<<>>, b)
      ELSE IF b.startCol < Len(getLine(ls, b.startRow))
      THEN TextAt(<<>>, Bounds(b.startRow, b.startCol, b.startRow, b.startCol + 1))
      ELSE IF b.startRow >= getLineCount(ls) - 1 THEN Null
      ELSE TextAt(<<>>, Bounds(b.startRow, b.startCol, b.startRow + 1, 0))

deleteBackwardResults(ls, rs) ==
  [i \in 1..Len(rs) |-> deleteBackwardResult(ls, getOrderedRanges(rs)[i])]

deleteForwardResults(ls, rs) ==
  [i \in 1..Len(rs) |-> deleteForwardResult(ls, getOrderedRanges(rs)[i])]

\* for (let i = ranges.length - 1; i >= 0; i--) this._deleteBounds(...) of
\* Selection.delete, over the non-empty ranges in ascending order.
RECURSIVE deleteAll(_, _, _)
deleteAll(ls, rs, i) ==
  IF i = 0 THEN ls
  ELSE deleteAll(_deleteBounds(ls, getBounds(rs[i])), rs, i - 1)

\* A variant that keeps the first non-empty range only.
firstNonEmpty(rs) ==
  IF \A i \in 1..Len(rs) : isEmpty(rs[i]) THEN <<>>
  ELSE <<SelectSeq(getOrderedRanges(rs), LAMBDA r : ~isEmpty(r))[1]>>

nonEmptyOrdered(rs) == SelectSeq(getOrderedRanges(rs), LAMBDA r : ~isEmpty(r))


\* A variant that takes the snapshot before it looks for non-empty ranges.
deleteSavingFirst(ls, h, idx, md, rs, pidx, c) ==
  LET doomed == nonEmptyOrdered(rs)
      targetBounds == IF hasPrimaryRange(rs, pidx)
                      THEN getBounds(primaryRange(rs, pidx))
                      ELSE getBounds(doomed[1])
      left == deleteAll(ls, doomed, Len(doomed))
      saved == saveToHistory(h, idx, ls)
  IN  IF ~active(rs)
      THEN [ret |-> FALSE, lines |-> ls, history |-> h, historyIndex |-> idx,
            modified |-> md, ranges |-> rs, primaryIndex |-> pidx, cursor |-> c]
      ELSE IF Len(doomed) = 0
      THEN [ret |-> FALSE, lines |-> ls, history |-> saved.history,
            historyIndex |-> saved.historyIndex, modified |-> md,
            ranges |-> <<>>, primaryIndex |-> -1, cursor |-> c]
      ELSE [ret |-> TRUE, lines |-> left, history |-> saved.history,
            historyIndex |-> saved.historyIndex, modified |-> TRUE,
            ranges |-> <<>>, primaryIndex |-> -1,
            cursor |-> clamp([c EXCEPT !.row = targetBounds.startRow,
                                       !.col = targetBounds.startCol], left)]

\* Selection.delete(): the return value and the state left.
delete(ls, h, idx, md, rs, pidx, c) ==
  LET doomed == nonEmptyOrdered(rs)
      targetBounds == IF hasPrimaryRange(rs, pidx)
                      THEN getBounds(primaryRange(rs, pidx))
                      ELSE getBounds(doomed[1])
      left == deleteAll(ls, doomed, Len(doomed))
      saved == saveToHistory(h, idx, ls)
  IN  IF ~active(rs)
      THEN [ret |-> FALSE, lines |-> ls, history |-> h, historyIndex |-> idx,
            modified |-> md, ranges |-> rs, primaryIndex |-> pidx, cursor |-> c]
      ELSE IF Len(doomed) = 0
      THEN [ret |-> FALSE, lines |-> ls, history |-> h, historyIndex |-> idx,
            modified |-> md, ranges |-> <<>>, primaryIndex |-> -1, cursor |-> c]
      ELSE [ret |-> TRUE, lines |-> left, history |-> saved.history,
            historyIndex |-> saved.historyIndex, modified |-> TRUE,
            ranges |-> <<>>, primaryIndex |-> -1,
            cursor |-> clamp([c EXCEPT !.row = targetBounds.startRow,
                                       !.col = targetBounds.startCol], left)]


\* ------------------------------------------------------------- Clipboard

\* Selection.getText()
getText(ls, rs) ==
  IF ~active(rs) THEN <<>>
  ELSE Join([i \in 1..Len(rs) |->
               _getTextForBounds(ls, getBounds(getOrderedRanges(rs)[i]))])

emptyCursors(rs) == SelectSeq(rs, isEmpty)

\* The rows of the cursors, descending, without duplicates.
RECURSIVE descending(_)
descending(rows) ==
  IF rows = {} THEN <<>>
  ELSE LET top == CHOOSE r \in rows : \A q \in rows : q <= r
       IN  <<top>> \o descending(rows \ {top})

uniqueRows(rs) ==
  descending({emptyCursors(rs)[i].hr : i \in 1..Len(emptyCursors(rs))})

\* _copyMultiCursor: the clipboard it leaves (it is called with ranges, so
\* it never fails).
_copyMultiCursor(ls, rs) ==
  LET ordered == getOrderedRanges(rs)
      textParts == [i \in 1..Len(ordered) |->
                      IF isEmpty(ordered[i])
                      THEN getLine(ls, getBounds(ordered[i]).startRow)
                      ELSE _getTextForBounds(ls, getBounds(ordered[i]))]
  IN  [content |-> Join(textParts), isLinewise |-> Len(textParts) > 1]

\* copyFromEditor: success and the clipboard left.
copyFromEditor(ls, rs, cl) ==
  IF ~active(rs) THEN [success |-> FALSE, clip |-> cl]
  ELSE IF hasContentSelection(rs)
  THEN [success |-> TRUE,
        clip |-> [content |-> getText(ls, rs), isLinewise |-> FALSE]]
  ELSE IF Len(emptyCursors(rs)) > 1
  THEN [success |-> TRUE, clip |-> _copyMultiCursor(ls, rs)]
  ELSE [success |-> FALSE, clip |-> cl]

\* A variant that takes the rows in ascending order.
RECURSIVE spliceRowsAscending(_, _)
spliceRowsAscending(ls, rows) ==
  IF Len(rows) = 0 THEN ls
  ELSE spliceRowsAscending(IF rows[Len(rows)] >= 0 /\ rows[Len(rows)] < Len(ls)
                           THEN Splice(ls, rows[Len(rows)], 1, <<>>) ELSE ls,
                           SubSeq(rows, 1, Len(rows) - 1))

\* for (const row of uniqueRows) if (row in lines) lines.splice(row, 1)
RECURSIVE spliceRows(_, _)
spliceRows(ls, rows) ==
  IF Len(rows) = 0 THEN ls
  ELSE spliceRows(IF rows[1] >= 0 /\ rows[1] < Len(ls)
                  THEN Splice(ls, rows[1], 1, <<>>) ELSE ls,
                  Tail(rows))

\* A variant that does not put an empty line into an emptied buffer.
_cutLinesToNothing(ls, h, idx, rs, c) ==
  LET rows == uniqueRows(rs)
      saved == saveToHistory(h, idx, ls)
      left == spliceRows(ls, rows)
      targetRow == Min(rows[Len(rows)], Len(left) - 1)
  IN  [lines |-> left, history |-> saved.history,
       historyIndex |-> saved.historyIndex, modified |-> TRUE,
       ranges |-> <<>>, primaryIndex |-> -1,
       cursor |-> clamp([c EXCEPT !.row = targetRow, !.col = 0], left)]

\* _cutLinesAtCursors: the state left.
_cutLinesAtCursors(ls, h, idx, rs, c) ==
  LET rows == uniqueRows(rs)
      saved == saveToHistory(h, idx, ls)
      spliced == spliceRows(ls, rows)
      left == IF Len(spliced) = 0 THEN << <<>> >> ELSE spliced
      targetRow == Min(rows[Len(rows)], Len(left) - 1)
  IN  [lines |-> left, history |-> saved.history,
       historyIndex |-> saved.historyIndex, modified |-> TRUE,
       ranges |-> <<>>, primaryIndex |-> -1,
       cursor |-> clamp([c EXCEPT !.row = targetRow, !.col = 0], left)]

\* cutFromEditor: the clipboard left.
cutClip(ls, rs, cl) ==
  IF ~active(rs) THEN cl
  ELSE IF hasContentSelection(rs) /\ Len(getText(ls, rs)) > 0
  THEN [content |-> getText(ls, rs), isLinewise |-> FALSE]
  ELSE IF Len(emptyCursors(rs)) > 1 THEN _copyMultiCursor(ls, rs)
  ELSE cl

\* cutFromEditor: success and the state left.
cutFromEditor(ls, h, idx, md, rs, pidx, c, cl) ==
  IF active(rs) /\ hasContentSelection(rs) /\ Len(getText(ls, rs)) > 0
  THEN [delete(ls, h, idx, md, rs, pidx, c) EXCEPT !.ret = TRUE]
  ELSE IF active(rs) /\ Len(emptyCursors(rs)) > 1
  THEN [ret |-> TRUE] @@ _cutLinesAtCursors(ls, h, idx, rs, c)
  ELSE [ret |-> FALSE, lines |-> ls, history |-> h, historyIndex |-> idx,
        modified |-> md, ranges |-> rs, primaryIndex |-> pidx, cursor |-> c]

\* A variant that puts the lines of a linewise content above the row of the
\* cursor and inserts any other content without its line breaks.
_pasteLinesAbove(ls, h, idx, c, cl) ==
  LET saved == saveToHistory(h, idx, ls)
      line == getLine(ls, c.row)
      flat == SelectSeq(cl.content, LAMBDA ch : ch # NL)
  IN  [history |-> saved.history, historyIndex |-> saved.historyIndex,
       modified |-> TRUE]
      @@ IF cl.isLinewise
         THEN [lines |-> Splice(ls, c.row, 0, Split(cl.content)),
               cursor |-> [c EXCEPT !.row = c.row + 1, !.col = 0]]
         ELSE [lines |-> SetLine(ls, c.row,
                                 Substring(line, 0, c.col) \o flat
                                 \o Substring(line, c.col, Len(line))),
               cursor |-> [c EXCEPT !.col = c.col + Len(flat)]]

\* _pasteSingleCursor with content on the clipboard: the state left.
_pasteSingleCursor(ls, h, idx, c, cl) ==
  LET saved == saveToHistory(h, idx, ls)
      parts == Split(cl.content)
      line == getLine(ls, c.row)
      before == Substring(line, 0, c.col)
      after == Substring(line, c.col, Len(line))
      lastIndex == Len(parts) - 1
  IN  [history |-> saved.history, historyIndex |-> saved.historyIndex,
       modified |-> TRUE]
      @@ IF cl.isLinewise
         THEN [lines |-> Splice(ls, c.row + 1, 0, parts),
               cursor |-> [c EXCEPT !.row = c.row + 1, !.col = 0]]
         ELSE IF Len(parts) > 1
         THEN [lines |-> Splice(SetLine(ls, c.row, before \o parts[1]),
                                c.row + 1, 0,
                                [i \in 1..lastIndex |->
                                   IF i = lastIndex THEN parts[i + 1] \o after
                                   ELSE parts[i + 1]]),
               cursor |-> [c EXCEPT !.row = c.row + lastIndex,
                                    !.col = Len(parts[lastIndex + 1])]]
         ELSE [lines |-> SetLine(ls, c.row, before \o cl.content \o after),
               cursor |-> [c EXCEPT !.col = c.col + Len(cl.content)]]

\* prepareTextForDistribution(cursorCount) with content on the clipboard.
prepareTextForDistribution(content, cursorCount) ==
  LET parts == Split(content)
  IN  IF Len(parts) > 1
      THEN IF Len(parts) = cursorCount THEN parts
           ELSE [i \in 1..cursorCount |-> parts[((i - 1) % Len(parts)) + 1]]
      ELSE [i \in 1..cursorCount |-> content]

\* The callback of _pasteMultiCursor: textParts[index] || textParts[last]
\* || "", index counting every range and textParts made for the cursors.
pasteMultiCursorResult(r, index, textParts) ==
  IF ~isEmpty(r) THEN Null
  ELSE IF index < Len(textParts) /\ Len(textParts[index + 1]) > 0
  THEN Text(textParts[index + 1])
  ELSE Text(textParts[Len(textParts)])

\* The results of the callback of _pasteMultiCursor.
pasteMultiCursorResults(rs, textParts) ==
  [i \in 1..Len(rs) |->
     pasteMultiCursorResult(getOrderedRanges(rs)[i], i - 1, textParts)]

\* pasteToEditor: success and the state left.
pasteToEditor(ls, h, idx, md, rs, pidx, c, cl) ==
  IF Len(cl.content) = 0
  THEN [ret |-> FALSE, lines |-> ls, history |-> h, historyIndex |-> idx,
        modified |-> md, ranges |-> rs, primaryIndex |-> pidx, cursor |-> c]
  ELSE IF active(rs) /\ Len(emptyCursors(rs)) > 1
  THEN replaceRanges(ls, h, idx, md, rs, pidx, c,
         pasteMultiCursorResults(rs,
           prepareTextForDistribution(cl.content, Len(emptyCursors(rs)))))
  ELSE IF active(rs) /\ hasContentSelection(rs)
  THEN replaceRanges(ls, h, idx, md, rs, pidx, c,
                     [i \in 1..Len(rs) |-> Text(cl.content)])
  ELSE [ret |-> TRUE, ranges |-> rs, primaryIndex |-> pidx]
       @@ _pasteSingleCursor(ls, h, idx, c, cl)

\* ------------------------------------------------------------ Cursor moves

\* Cursor.moveUp(): the column follows preferredCol.
moveUp(ls, c, pc) ==
  IF c.row > 0
  THEN [cursor |-> [c EXCEPT !.row = c.row - 1,
                             !.col = Min(pc, Len(getLine(ls, c.row - 1)))],
        preferredCol |-> pc]
  ELSE [cursor |-> c, preferredCol |-> pc]

\* Cursor.moveDown()
moveDown(ls, c, pc) ==
  IF c.row < getLineCount(ls) - 1
  THEN [cursor |-> [c EXCEPT !.row = c.row + 1,
                             !.col = Min(pc, Len(getLine(ls, c.row + 1)))],
        preferredCol |-> pc]
  ELSE [cursor |-> c, preferredCol |-> pc]

moveToLineStart(ls, c, pc) ==
  [cursor |-> [c EXCEPT !.col = 0], preferredCol |-> 0]

moveToLineEnd(ls, c, pc) ==
  [cursor |-> [c EXCEPT !.col = Len(getLine(ls, c.row))],
   preferredCol |-> Len(getLine(ls, c.row))]

moveToStart(ls, c, pc) ==
  [cursor |-> [c EXCEPT !.row = 0, !.col = 0], preferredCol |-> 0]

\* getTokenType(line[i]): the explored texts hold blanks and word characters;
\* an index outside the line reads undefined, a "word".
getTokenType(line, i) ==
  IF i < 0 \/ i >= Len(line) THEN "word"
  ELSE IF line[i + 1] = " " THEN "whitespace"
  ELSE IF line[i + 1] \in WordChars THEN "word"
  ELSE "symbol"

\* Cursor.moveTokenForward(): to the next line from the end of a line, else
\* behind the run of characters of the type at the cursor.
moveTokenForward(ls, c, pc) ==
  LET line == getLine(ls, c.row)
      newCol == CHOOSE n \in c.col..Len(line) :
                  /\ n = Len(line)
                     \/ getTokenType(line, n) # getTokenType(line, c.col)
                  /\ \A k \in c.col..(n - 1) :
                       getTokenType(line, k) = getTokenType(line, c.col)
  IN  IF c.col >= Len(line)
      THEN IF c.row < getLineCount(ls) - 1
           THEN [cursor |-> [c EXCEPT !.row = c.row + 1, !.col = 0],
                 preferredCol |-> 0]
           ELSE [cursor |-> c, preferredCol |-> pc]
      ELSE [cursor |-> [c EXCEPT !.col = newCol], preferredCol |-> newCol]

\* Cursor.moveTokenBackward(): to the end of the previous line from the
\* start of a line, else to the start of the run of characters of the type
\* before the cursor.
moveTokenBackward(ls, c, pc) ==
  LET line == getLine(ls, c.row)
      newCol == CHOOSE n \in 0..(c.col - 1) :
                  /\ n = 0
                     \/ getTokenType(line, n - 1) # getTokenType(line, c.col - 1)
                  /\ \A k \in n..(c.col - 1) :
                       getTokenType(line, k) = getTokenType(line, c.col - 1)
  IN  IF c.col <= 0
      THEN IF c.row > 0
           THEN [cursor |-> [c EXCEPT !.row = c.row - 1,
                                      !.col = Len(getLine(ls, c.row - 1))],
                 preferredCol |-> Len(getLine(ls, c.row - 1))]
           ELSE [cursor |-> c, preferredCol |-> pc]
      ELSE [cursor |-> [c EXCEPT !.col = newCol], preferredCol |-> newCol]

\* Rows of the text area: what page up and page down move by.
TextAreaHeight == 2

\* for (i < height) move(): a cursor move made n times.
RECURSIVE moveTimes(_, _, _, _, _)
moveTimes(ls, c, pc, up, n) ==
  IF n = 0 THEN [cursor |-> c, preferredCol |-> pc]
  ELSE IF up
  THEN moveTimes(ls, moveUp(ls, c, pc).cursor, pc, up, n - 1)
  ELSE moveTimes(ls, moveDown(ls, c, pc).cursor, pc, up, n - 1)

Directions ==
  {"up", "down", "left", "right", "home", "end", "pageup", "pagedown",
   "token-left", "token-right"}

\* The switch of moveCursor: the cursor and preferredCol afterwards.
moveInDirection(ls, c, pc, direction) ==
  CASE direction = "up" -> moveUp(ls, c, pc)
    [] direction = "down" -> moveDown(ls, c, pc)
    [] direction = "left" -> moveLeft(ls, c, pc)
    [] direction = "right" -> moveRight(ls, c, pc)
    [] direction = "home" -> moveToLineStart(ls, c, pc)
    [] direction = "end" -> moveToLineEnd(ls, c, pc)
    [] direction = "pageup" -> moveTimes(ls, c, pc, TRUE, TextAreaHeight)
    [] direction = "pagedown" -> moveTimes(ls, c, pc, FALSE, TextAreaHeight)
    [] direction = "token-left" -> moveTokenBackward(ls, c, pc)
    [] direction = "token-right" -> moveTokenForward(ls, c, pc)
    [] OTHER -> [cursor |-> c, preferredCol |-> pc]

\* ------------------------------------------------------------- TextEditor

\* A key handler works on the buffer, the cursor, the selection and the
\* clipboard: e holds their fields, and ret what the handler's call on them
\* returned.

\* e after a call on the selection that left res.
With(e, res) ==
  [e EXCEPT !.ret = res.ret, !.lines = res.lines, !.history = res.history,
            !.historyIndex = res.historyIndex, !.modified = res.modified,
            !.ranges = res.ranges, !.primaryIndex = res.primaryIndex,
            !.cursor = res.cursor]

\* A variant that takes the snapshot and leaves the flag as it is.
savedUnmarked(e) ==
  [e EXCEPT !.history = saveToHistory(e.history, e.historyIndex, e.lines).history,
            !.historyIndex =
              saveToHistory(e.history, e.historyIndex, e.lines).historyIndex]

\* this.buffer.modified = true; this.buffer.saveToHistory() with the lines
\* of e.
saved(e) ==
  [e EXCEPT !.modified = TRUE,
            !.history = saveToHistory(e.history, e.historyIndex, e.lines).history,
            !.historyIndex =
              saveToHistory(e.history, e.historyIndex, e.lines).historyIndex]

\* this.selection.replaceRanges(() => text)
selectionReplace(e, text) ==
  With(e, replaceRanges(e.lines, e.history, e.historyIndex, e.modified,
                        e.ranges, e.primaryIndex, e.cursor,
                        [i \in 1..Len(e.ranges) |-> Text(text)]))

\* hasContentSelection() ? replaceRanges(() => "") : deleteBackward(), or
\* deleteForward() when forward.
selectionDelete(e, forward) ==
  IF hasContentSelection(e.ranges) THEN selectionReplace(e, <<>>)
  ELSE With(e, replaceRanges(e.lines, e.history, e.historyIndex, e.modified,
                             e.ranges, e.primaryIndex, e.cursor,
                             IF forward
                             THEN deleteForwardResults(e.lines, e.ranges)
                             ELSE deleteBackwardResults(e.lines, e.ranges)))

\* this.cursor.preferredCol = this.cursor.col
preferred(e) == [e EXCEPT !.preferredCol = e.cursor.col]

\* TextEditor.insertChar(char)
editorInsertChar(e, char) ==
  IF active(e.ranges) /\ selectionReplace(e, char).ret
  THEN preferred(selectionReplace(e, char))
  ELSE [saved([e EXCEPT !.lines = insertCharLines(e.lines, e.cursor.row,
                                                  e.cursor.col, char)])
          EXCEPT !.cursor.col = e.cursor.col + Len(char), !.ret = TRUE]

\* TextEditor.insertNewline()
insertNewline(e) ==
  IF active(e.ranges) /\ selectionReplace(e, <<NL>>).ret
  THEN preferred(selectionReplace(e, <<NL>>))
  ELSE [saved([e EXCEPT !.lines = insertLineLines(e.lines, e.cursor.row,
                                                  e.cursor.col)])
          EXCEPT !.cursor = [row |-> e.cursor.row + 1, col |-> 0],
                 !.preferredCol = 0, !.ret = TRUE]

\* The part of TextEditor.deleteChar() behind the selection: the buffer's
\* deleteChar at the cursor, and the cursor follows when it returned true.
deleteAtCursor(e) ==
  IF e.cursor.row < Len(e.lines) /\ (e.cursor.col > 0 \/ e.cursor.row > 0)
  THEN [saved([e EXCEPT !.lines = deleteCharLines(e.lines, e.cursor.row,
                                                  e.cursor.col)])
          EXCEPT !.cursor =
                   IF e.cursor.col > 0
                   THEN [e.cursor EXCEPT !.col = e.cursor.col - 1]
                   ELSE [row |-> e.cursor.row - 1,
                         col |-> Len(getLine(e.lines, e.cursor.row - 1))],
                 !.ret = TRUE]
  ELSE [e EXCEPT !.ret = FALSE]

\* TextEditor.deleteChar()
editorDeleteChar(e) ==
  IF active(e.ranges) /\ selectionDelete(e, FALSE).ret
  THEN preferred(selectionDelete(e, FALSE))
  ELSE deleteAtCursor(e)

\* TextEditor.deleteForward()
editorDeleteForward(e) ==
  IF active(e.ranges) /\ selectionDelete(e, TRUE).ret
  THEN preferred(selectionDelete(e, TRUE))
  ELSE IF e.cursor.col < Len(getLine(e.lines, e.cursor.row))
  THEN editorDeleteChar([e EXCEPT !.cursor.col = e.cursor.col + 1])
  ELSE IF e.cursor.row < getLineCount(e.lines) - 1
  THEN [saved([e EXCEPT !.lines =
                 Splice(SetLine(e.lines, e.cursor.row,
                                getLine(e.lines, e.cursor.row)
                                \o getLine(e.lines, e.cursor.row + 1)),
                        e.cursor.row + 1, 1, <<>>)])
          EXCEPT !.ret = TRUE]
  ELSE [e EXCEPT !.ret = FALSE]

\* TextEditor.swapLines(direction): the snapshot is taken, and the buffer
\* marked modified, also when no line moves.
swapLines(e, direction) ==
  IF direction = "up" /\ e.cursor.row > 0
  THEN [saved([e EXCEPT !.lines[e.cursor.row + 1] = e.lines[e.cursor.row],
                        !.lines[e.cursor.row] = e.lines[e.cursor.row + 1]])
          EXCEPT !.cursor.row = e.cursor.row - 1, !.ret = TRUE]
  ELSE IF direction = "down" /\ e.cursor.row < Len(e.lines) - 1
  THEN [saved([e EXCEPT !.lines[e.cursor.row + 1] = e.lines[e.cursor.row + 2],
                        !.lines[e.cursor.row + 2] = e.lines[e.cursor.row + 1]])
          EXCEPT !.cursor.row = e.cursor.row + 1, !.ret = TRUE]
  ELSE [saved(e) EXCEPT !.ret = FALSE]

\* A variant of undo() that leaves the cursor where it was.
editorUndoUnclamped(e) ==
  IF undo(e.history, e.historyIndex, e.lines).ret
  THEN [e EXCEPT !.lines = undo(e.history, e.historyIndex, e.lines).lines,
                 !.historyIndex = e.historyIndex - 1,
                 !.modified = TRUE,
                 !.ret = TRUE]
  ELSE [e EXCEPT !.ret = FALSE]

\* TextEditor.undo(): the cursor is clamped when the buffer went back.
editorUndo(e) ==
  IF undo(e.history, e.historyIndex, e.lines).ret
  THEN [e EXCEPT !.lines = undo(e.history, e.historyIndex, e.lines).lines,
                 !.historyIndex = e.historyIndex - 1,
                 !.modified = TRUE,
                 !.cursor = clamp(e.cursor,
                                  undo(e.history, e.historyIndex, e.lines).lines),
                 !.ret = TRUE]
  ELSE [e EXCEPT !.ret = FALSE]

\* TextEditor.redo()
editorRedo(e) ==
  IF redo(e.history, e.historyIndex, e.lines).ret
  THEN [e EXCEPT !.lines = redo(e.history, e.historyIndex, e.lines).lines,
                 !.historyIndex = e.historyIndex + 1,
                 !.modified = TRUE,
                 !.cursor = clamp(e.cursor,
                                  redo(e.history, e.historyIndex, e.lines).lines),
                 !.ret = TRUE]
  ELSE [e EXCEPT !.ret = FALSE]

\* selection.start()
started(e) ==
  [e EXCEPT !.ranges = setRanges(<<fromCursor(e.cursor)>>, 0).ranges,
            !.primaryIndex = setRanges(<<fromCursor(e.cursor)>>, 0).primaryIndex]

\* selection.clear()
cleared(e) == [e EXCEPT !.ranges = <<>>, !.primaryIndex = -1]

\* selection.update(): the head of the primary range goes to the cursor.
updated(e) ==
  IF hasPrimaryRange(e.ranges, e.primaryIndex)
  THEN [e EXCEPT !.ranges[e.primaryIndex + 1].hr = e.cursor.row,
                 !.ranges[e.primaryIndex + 1].hc = e.cursor.col]
  ELSE e

\* TextEditor.moveCursor(direction, extending)
moveCursor(e, direction, extending) ==
  LET moved == [e EXCEPT
                  !.cursor = moveInDirection(e.lines, e.cursor, e.preferredCol,
                                             direction).cursor,
                  !.preferredCol =
                    moveInDirection(e.lines, e.cursor, e.preferredCol,
                                    direction).preferredCol,
                  !.ret = TRUE]
  IN  IF ~active(e.ranges) THEN moved
      ELSE IF extending THEN updated(moved)
      ELSE cleared(moved)

\* CommandHandler.handleSelectionMove(direction), and the handlers of M-home
\* and M-end.
handleSelectionMove(e, direction) ==
  moveCursor(IF active(e.ranges) THEN e ELSE started(e), direction, TRUE)

\* CommandHandler.handleSelectionToggle(): selection.toggle()
handleSelectionToggle(e) ==
  [(IF active(e.ranges) THEN cleared(e) ELSE started(e)) EXCEPT !.ret = TRUE]

\* CommandHandler.handleSelectAll(): selection.selectAll()
handleSelectAll(e) ==
  LET lastRow == Max(0, getLineCount(e.lines) - 1)
      lastCol == Len(getLine(e.lines, lastRow))
  IN  [e EXCEPT !.ranges = <<Range(0, 0, lastRow, lastCol)>>,
                !.primaryIndex = 0,
                !.cursor = [row |-> lastRow, col |-> lastCol],
                !.ret = TRUE]

\* CommandHandler.handleSelectLine(): selection.selectLine()
handleSelectLine(e) ==
  [e EXCEPT !.ranges = <<Range(e.cursor.row, 0, e.cursor.row,
                               Len(getLine(e.lines, e.cursor.row)))>>,
            !.primaryIndex = 0,
            !.cursor.col = Len(getLine(e.lines, e.cursor.row)),
            !.ret = TRUE]

\* TextEditor.handleEscape() when no overlay is shown.
handleEscape(e) == [cleared(e) EXCEPT !.ret = TRUE]

\* TextEditor.selectNextOccurrence(): addNextOccurrence() without options.
selectNextOccurrence(e) ==
  LET res == addNextOccurrence(e.lines, e.ranges, e.primaryIndex, e.cursor,
                               FALSE)
  IN  [e EXCEPT !.ranges = res.ranges, !.primaryIndex = res.primaryIndex,
                !.cursor = res.cursor, !.ret = res.ret]

\* CommandHandler.handleCopy(): the selection is cleared when the copy
\* succeeded.
handleCopy(e) ==
  IF copyFromEditor(e.lines, e.ranges, e.clip).success
  THEN [cleared(e) EXCEPT !.clip = copyFromEditor(e.lines, e.ranges, e.clip).clip,
                          !.ret = TRUE]
  ELSE [e EXCEPT !.ret = FALSE]

\* CommandHandler.handleCut()
handleCut(e) ==
  [With(e, cutFromEditor(e.lines, e.history, e.historyIndex, e.modified,
                         e.ranges, e.primaryIndex, e.cursor, e.clip))
     EXCEPT !.clip = cutClip(e.lines, e.ranges, e.clip)]

\* _getCursorCount(selection)
_getCursorCount(rs) ==
  IF ~active(rs) \/ Len(emptyCursors(rs)) = 0 THEN 1 ELSE Len(emptyCursors(rs))

\* The selection after a paste that succeeded: cleared unless the paste
\* went to several cursors.
pasted(e) ==
  IF e.ret /\ _getCursorCount(e.ranges) <= 1 THEN cleared(e) ELSE e

\* CommandHandler.handlePaste()
handlePaste(e) ==
  pasted(With(e, pasteToEditor(e.lines, e.history, e.historyIndex, e.modified,
                               e.ranges, e.primaryIndex, e.cursor, e.clip)))

\* ------------------------------------------------------------------ inputs

\* Contents of the files loadFile reads.
FileContents == { <<"a", "b", NL, "a", "b">>, <<"b">> }

\* Strings typed into the buffer and texts a replacement callback returns.
TypedChars == { <<"a">> }
Texts == { <<>>, <<"b">>, <<NL, "b">> }

Positions(ls) ==
  {p \in [row : 0..(Len(ls) - 1), col : 0..MaxCols] :
     p.col <= Len(getLine(ls, p.row))}

\* Rows whose line is a string: reading a hole of the array as a string
\* throws in insertChar and deleteChar.
StringRows(ls) == {r \in 0..(Len(ls) - 1) : ls[r + 1] # HOLE}

\* Range lists handed to setRanges: one cursor, one selection (forward,
\* backward, over a line break), two cursors (on one row, on two rows, at
\* one position, given in descending order), a selection with a cursor at
\* its start (before and behind it), and two selections.
RangeLists ==
  { <<Range(0, 0, 0, 0)>>, <<Range(0, 1, 0, 1)>>, <<Range(1, 0, 1, 0)>>,
    <<Range(0, 0, 0, 1)>>, <<Range(0, 2, 0, 1)>>, <<Range(0, 1, 1, 1)>>,
    <<Range(0, 0, 0, 0), Range(0, 1, 0, 1)>>,
    <<Range(0, 1, 0, 1), Range(1, 1, 1, 1)>>,
    <<Range(0, 1, 0, 1), Range(0, 1, 0, 1)>>,
    <<Range(1, 0, 1, 0), Range(0, 2, 0, 2)>>,
    <<Range(0, 1, 0, 2), Range(0, 1, 0, 1)>>,
    <<Range(0, 1, 0, 1), Range(0, 1, 0, 2)>>,
    <<Range(0, 0, 0, 1), Range(1, 1, 1, 0)>> }

\* The range lists of the explorations that go deep into the history: a
\* cursor, two cursors on one row, a selection.
FewRangeLists ==
  { <<Range(0, 0, 0, 0)>>,
    <<Range(0, 0, 0, 0), Range(0, 1, 0, 1)>>,
    <<Range(0, 0, 0, 1)>> }

\* Files in which a text occurs several times: occurrences that overlap,
\* words between blanks, and occurrences on several lines.
OccFiles ==
  { <<"a", "a", "a", "a", "a">>,
    <<"a", "b", " ", "a", "b", NL, "a", "b">> }

\* Range lists set before addNextOccurrence: one selection (forward,
\* backward, over a line break), one cursor, and a selection with a cursor
\* or a second selection before it.
OccRangeLists ==
  { <<Range(0, 0, 0, 2)>>, <<Range(0, 1, 0, 3)>>, <<Range(0, 3, 0, 5)>>,
    <<Range(0, 1, 0, 0)>>, <<Range(1, 0, 1, 2)>>, <<Range(0, 3, 1, 2)>>,
    <<Range(0, 1, 0, 1)>>,
    <<Range(0, 0, 0, 0), Range(0, 3, 0, 5)>>,
    <<Range(0, 0, 0, 2), Range(0, 2, 0, 4)>> }

\* The selections addNextOccurrence starts from.
OccSelections ==
  { <<Range(0, 0, 0, 2)>>, <<Range(0, 1, 0, 3)>>, <<Range(0, 2, 0, 4)>>,
    <<Range(0, 3, 0, 5)>>, <<Range(0, 1, 0, 0)>>, <<Range(0, 4, 0, 5)>>,
    <<Range(1, 0, 1, 2)>>, <<Range(1, 1, 1, 2)>> }

\* Texts put on the clipboard: one line, two and three lines, and lines that
\* are empty (the first, the one in the middle).
ClipTexts ==
  { <<"b">>, <<"a", NL, "b">>, <<NL, "b">>,
    <<"a", NL, "b", NL, "a">>, <<"a", NL, NL, "b">> }

\* Range lists a paste or a copy finds: those of RangeLists, three cursors,
\* and a selection with one and with two cursors behind it.
PasteRangeLists ==
  RangeLists \cup
  { <<Range(0, 0, 0, 0), Range(0, 1, 0, 1), Range(1, 1, 1, 1)>>,
    <<Range(0, 0, 0, 1), Range(1, 0, 1, 0)>>,
    <<Range(0, 0, 0, 1), Range(1, 0, 1, 0), Range(1, 1, 1, 1)>> }

\* Files of the explorations of one edit: those of FileContents and one of
\* three lines.
EditFiles == FileContents \cup { <<"a", NL, "b", NL, "a", "b">> }

\* Range lists an edit finds: those of PasteRangeLists, two cursors and two
\* selections with a row between them, two selections that touch on one
\* row, and a selection behind one that spans a line break.
EditRangeLists ==
  PasteRangeLists \cup
  { <<Range(0, 0, 0, 0), Range(2, 1, 2, 1)>>,
    <<Range(0, 0, 0, 1), Range(2, 0, 2, 1)>>,
    <<Range(0, 0, 0, 1), Range(0, 1, 0, 2)>>,
    <<Range(0, 1, 1, 0), Range(1, 1, 1, 2)>> }

\* Texts put on the clipboard before an edit.
EditClipTexts == { <<"b">>, <<NL, "b">>, <<NL>> }

\* ------------------------------------------------------------------- state

\* No call of addNextOccurrence is running.
notScanning ==
  [phase |-> "idle", row |-> 0, col |-> 0, loop |-> FALSE, searchText |-> <<>>,
   visited |-> {}, originalKey |-> visitKey(0, 0)]

Init ==
  /\ lines = << <<>> >>
  /\ filename = null
  /\ modified = FALSE
  /\ history = <<>>
  /\ historyIndex = -1
  /\ cursor = [row |-> 0, col |-> 0]
  /\ ranges = <<>>
  /\ primaryIndex = -1
  /\ range = Range(0, 0, 0, 0)
  /\ clip = [content |-> <<>>, isLinewise |-> FALSE]
  /\ scan = notScanning
  /\ preferredCol = 0
  /\ synced = neverSynced
  /\ overlay = null
  /\ tasks = <<>>
  /\ exited = FALSE
  /\ op = "new"
  /\ ret = TRUE
  /\ arg = <<>>
  /\ dropped = 0

\* The operations that take a snapshot when they return true.
EditOps == {"insertChar", "deleteChar", "insertLine", "replaceRanges",
            "deleteBackward", "deleteForward", "delete", "cut", "paste"}

ReplaceOps == {"replaceRanges", "deleteBackward", "deleteForward"}

Returned(name, result, input) ==
  /\ op' = name
  /\ ret' = result
  /\ arg' = input
  /\ dropped' = IF name \in EditOps /\ result
                THEN Max(0, Len(history) - (historyIndex + 1))
                ELSE 0

\* A call on the buffer, the cursor, the selection or the clipboard.
Called(name, result, input) ==
  /\ Returned(name, result, input)
  /\ UNCHANGED <<range, filename, scan, preferredCol, synced, overlay, tasks,
                 exited>>

\* ---------------------------------------------------- SelectionRange steps

EditorUnchanged ==
  UNCHANGED <<lines, filename, scan, modified, history, historyIndex, cursor,
              preferredCol, ranges, primaryIndex, clip, synced, overlay, tasks,
              exited>>

SetAnchor(row, col) ==
  /\ range' = [range EXCEPT !.ar = row, !.ac = col]
  /\ Returned("setAnchor", TRUE, <<row, col>>)
  /\ EditorUnchanged

SetHead(row, col) ==
  /\ range' = [range EXCEPT !.hr = row, !.hc = col]
  /\ Returned("setHead", TRUE, <<row, col>>)
  /\ EditorUnchanged

GetBounds ==
  /\ Returned("getBounds", getBounds(range), <<>>)
  /\ UNCHANGED range
  /\ EditorUnchanged

Contains(row, col) ==
  /\ Returned("contains", contains(range, row, col), <<row, col>>)
  /\ UNCHANGED range
  /\ EditorUnchanged

\* ------------------------------------------------------------ Buffer steps

InsertChar(row, col, ch) ==
  /\ row >= Len(lines) \/ row \in StringRows(lines)
  /\ lines' = insertCharLines(lines, row, col, ch)
  /\ modified' = TRUE
  /\ history' = saveToHistory(history, historyIndex, lines').history
  /\ historyIndex' = saveToHistory(history, historyIndex, lines').historyIndex
  /\ Called("insertChar", TRUE, <<>>)
  /\ UNCHANGED <<cursor, ranges, primaryIndex, clip>>

DeleteChar(row, col) ==
  /\ row >= Len(lines) \/ row \in StringRows(lines)
  /\ row > 0 /\ col = 0 /\ row < Len(lines) => (row - 1) \in StringRows(lines)
  /\ IF row < Len(lines) /\ (col > 0 \/ row > 0)
     THEN /\ lines' = deleteCharLines(lines, row, col)
          /\ modified' = TRUE
          /\ history' = saveToHistory(history, historyIndex, lines').history
          /\ historyIndex' = saveToHistory(history, historyIndex, lines').historyIndex
          /\ Called("deleteChar", TRUE, <<>>)
     ELSE /\ UNCHANGED bufVars
          /\ Called("deleteChar", FALSE, <<>>)
  /\ UNCHANGED <<cursor, ranges, primaryIndex, clip>>

InsertLine(row, col) ==
  /\ lines' = insertLineLines(lines, row, col)
  /\ modified' = TRUE
  /\ history' = saveToHistory(history, historyIndex, lines').history
  /\ historyIndex' = saveToHistory(history, historyIndex, lines').historyIndex
  /\ Called("insertLine", TRUE, <<>>)
  /\ UNCHANGED <<cursor, ranges, primaryIndex, clip>>

\* loadFile when readFile resolves with content, and when it rejects.
LoadFileFrom(filepath, content, resolves) ==
  LET res == loadFile(lines, filename, modified, history, historyIndex,
                      synced, filepath, content, resolves)
  IN  /\ lines' = res.lines
      /\ filename' = res.filename
      /\ modified' = res.modified
      /\ history' = res.history
      /\ historyIndex' = res.historyIndex
      /\ synced' = res.synced
      /\ Returned("loadFile", res.ret, <<>>)
      /\ UNCHANGED <<cursor, preferredCol, ranges, primaryIndex, range, clip,
                     scan, overlay, tasks, exited>>

LoadFile(content) == LoadFileFrom(DefaultPath, content, TRUE)

LoadFileFails == LoadFileFrom(DefaultPath, <<>>, FALSE)

\* saveFile(filepath), or saveFile() when filepath is undefined; writeFile
\* resolves or rejects.
SaveFile(filepath, resolves) ==
  LET res == saveFile(lines, filename, modified, synced, filepath, resolves)
  IN  /\ filename' = res.filename
      /\ modified' = res.modified
      /\ synced' = res.synced
      /\ Returned("saveFile", res.ret, <<>>)
      /\ UNCHANGED <<lines, history, historyIndex, cursor, preferredCol, ranges,
                     primaryIndex, range, clip, scan, overlay, tasks, exited>>

Undo ==
  LET res == undo(history, historyIndex, lines)
  IN  /\ historyIndex' = res.historyIndex
      /\ lines' = res.lines
      /\ modified' = (res.ret \/ modified)
      /\ Called("undo", res.ret, <<>>)
      /\ UNCHANGED <<history, cursor, ranges, primaryIndex, clip>>

Redo ==
  LET res == redo(history, historyIndex, lines)
  IN  /\ historyIndex' = res.historyIndex
      /\ lines' = res.lines
      /\ modified' = (res.ret \/ modified)
      /\ Called("redo", res.ret, <<>>)
      /\ UNCHANGED <<history, cursor, ranges, primaryIndex, clip>>

\* ------------------------------------------------------------ Cursor steps

\* A call on the cursor.
Moved(name, c) ==
  /\ cursor' = c.cursor
  /\ preferredCol' = c.preferredCol
  /\ Returned(name, TRUE, <<>>)
  /\ UNCHANGED <<range, filename, scan, synced, overlay, tasks, exited>>

MoveLeft ==
  /\ Moved("moveLeft", moveLeft(lines, cursor, preferredCol))
  /\ UNCHANGED <<lines, modified, history, historyIndex, ranges, primaryIndex, clip>>

MoveRight ==
  /\ Moved("moveRight", moveRight(lines, cursor, preferredCol))
  /\ UNCHANGED <<lines, modified, history, historyIndex, ranges, primaryIndex, clip>>


\* --------------------------------------------------------- Selection steps

SelUnchanged == UNCHANGED <<lines, modified, history, historyIndex, cursor, clip>>

Clear ==
  /\ ranges' = <<>>
  /\ primaryIndex' = -1
  /\ Called("clear", TRUE, <<>>)
  /\ SelUnchanged

Start ==
  /\ ranges' = setRanges(<<fromCursor(cursor)>>, 0).ranges
  /\ primaryIndex' = setRanges(<<fromCursor(cursor)>>, 0).primaryIndex
  /\ Called("start", TRUE, <<>>)
  /\ SelUnchanged

\* A variant that starts a selection at the cursor when there is none.
UpdateOrStart ==
  /\ IF hasPrimaryRange(ranges, primaryIndex)
     THEN /\ ranges' = [ranges EXCEPT ![primaryIndex + 1].hr = cursor.row,
                                      ![primaryIndex + 1].hc = cursor.col]
          /\ primaryIndex' = primaryIndex
     ELSE /\ ranges' = <<fromCursor(cursor)>>
          /\ primaryIndex' = 0
  /\ Called("update", TRUE, <<>>)
  /\ UNCHANGED <<lines, modified, history, historyIndex, cursor, clip>>

Update ==
  /\ IF hasPrimaryRange(ranges, primaryIndex)
     THEN ranges' = [ranges EXCEPT ![primaryIndex + 1].hr = cursor.row,
                                   ![primaryIndex + 1].hc = cursor.col]
     ELSE ranges' = ranges
  /\ Called("update", TRUE, <<>>)
  /\ UNCHANGED <<lines, modified, history, historyIndex, cursor, clip, primaryIndex>>

ExtendTo(row, col) ==
  /\ IF hasPrimaryRange(ranges, primaryIndex)
     THEN /\ ranges' = [ranges EXCEPT ![primaryIndex + 1].hr = row,
                                      ![primaryIndex + 1].hc = col]
          /\ primaryIndex' = primaryIndex
     ELSE /\ ranges' = setRanges(<<fromCursor(cursor)>>, 0).ranges
          /\ primaryIndex' = setRanges(<<fromCursor(cursor)>>, 0).primaryIndex
  /\ Called("extendTo", TRUE, <<>>)
  /\ SelUnchanged

SetRanges(rs, pidx) ==
  /\ ranges' = setRanges(rs, pidx).ranges
  /\ primaryIndex' = setRanges(rs, pidx).primaryIndex
  /\ Called("setRanges", TRUE, <<>>)
  /\ SelUnchanged

AddRange(r, makePrimary) ==
  /\ ranges' = sortRanges(Append(ranges, r))
  /\ primaryIndex' = IF makePrimary THEN indexAfterPush(ranges, r)
                     ELSE primaryIndex
  /\ Called("addRange", TRUE, <<>>)
  /\ SelUnchanged

SelectLine(row) ==
  /\ ranges' = <<Range(row, 0, row, Len(getLine(lines, row)))>>
  /\ primaryIndex' = 0
  /\ cursor' = [cursor EXCEPT !.row = row, !.col = Len(getLine(lines, row))]
  /\ Called("selectLine", TRUE, <<>>)
  /\ UNCHANGED <<lines, modified, history, historyIndex, clip>>

SelectAll ==
  LET lastRow == Max(0, getLineCount(lines) - 1)
      lastCol == Len(getLine(lines, lastRow))
  IN  /\ ranges' = <<Range(0, 0, lastRow, lastCol)>>
      /\ primaryIndex' = 0
      /\ cursor' = [cursor EXCEPT !.row = lastRow, !.col = lastCol]
      /\ Called("selectAll", TRUE, <<>>)
      /\ UNCHANGED <<lines, modified, history, historyIndex, clip>>

SelectWord ==
  /\ ranges' = selectWord(lines, cursor).ranges
  /\ primaryIndex' = selectWord(lines, cursor).primaryIndex
  /\ cursor' = selectWord(lines, cursor).cursor
  /\ Called("selectWord", selectWord(lines, cursor).ret, <<>>)
  /\ UNCHANGED <<lines, modified, history, historyIndex, clip>>

AddNextOccurrence(loop) ==
  /\ ranges' = addNextOccurrence(lines, ranges, primaryIndex, cursor, loop).ranges
  /\ primaryIndex' =
       addNextOccurrence(lines, ranges, primaryIndex, cursor, loop).primaryIndex
  /\ cursor' = addNextOccurrence(lines, ranges, primaryIndex, cursor, loop).cursor
  /\ Called("addNextOccurrence",
            addNextOccurrence(lines, ranges, primaryIndex, cursor, loop).ret,
            <<loop>>)
  /\ UNCHANGED <<lines, modified, history, historyIndex, clip>>

\* addNextOccurrence taken one turn of its loops at a time.

\* The call returns.
ScanReturns(result) ==
  /\ scan' = notScanning
  /\ Returned("addNextOccurrence", result, <<scan.loop>>)
  /\ UNCHANGED <<range, filename, preferredCol, synced, overlay, tasks, exited>>

\* The call goes on at (row, col) of the loop of that phase.
ScanMoves(phase, row, col) ==
  /\ scan' = [scan EXCEPT !.phase = phase, !.row = row, !.col = col]
  /\ UNCHANGED <<ranges, primaryIndex, cursor, range, filename, preferredCol,
                 synced, overlay, tasks, exited, op, ret, arg, dropped>>

\* this.ranges.push(cloned); this.sortRanges(): the place (from 1) the
\* stable sort gives the i-th range, and the ranges in that order.
placeOf(rs, i) ==
  Cardinality({j \in 1..Len(rs) :
                 \/ compareRanges(rs[j], rs[i]) < 0
                 \/ compareRanges(rs[j], rs[i]) = 0 /\ j <= i})

placed(rs) ==
  [k \in 1..Len(rs) |-> rs[CHOOSE i \in 1..Len(rs) : placeOf(rs, i) = k]]

\* The match at (row, index) is added as the primary range, and the cursor
\* goes to its head.
ScanAdds(row, index) ==
  /\ ranges' = placed(Append(ranges, Range(row, index, row, index + Len(scan.searchText))))
  /\ primaryIndex' =
       indexAfterPush(ranges, Range(row, index, row, index + Len(scan.searchText)))
  /\ cursor' =
       clamp([cursor EXCEPT !.row = row, !.col = index + Len(scan.searchText)], lines)
  /\ ScanReturns(TRUE)

\* addNextOccurrence({loop}) up to its first loop.
BeginScan(loop) ==
  /\ scan.phase = "idle"
  /\ IF ~active(ranges)
     THEN /\ ranges' = selectWord(lines, cursor).ranges
          /\ primaryIndex' = selectWord(lines, cursor).primaryIndex
          /\ cursor' = selectWord(lines, cursor).cursor
          /\ Called("addNextOccurrence", selectWord(lines, cursor).ret, <<loop>>)
     ELSE IF ~hasPrimaryRange(ranges, primaryIndex)
             \/ Len(_getTextForBounds(lines,
                      getBounds(primaryRange(ranges, primaryIndex)))) = 0
     THEN /\ Called("addNextOccurrence", FALSE, <<loop>>)
          /\ UNCHANGED <<ranges, primaryIndex, cursor>>
     ELSE /\ scan' = [phase |-> "forward",
                       row |-> getBounds(primaryRange(ranges, primaryIndex)).endRow,
                       col |-> getBounds(primaryRange(ranges, primaryIndex)).endCol,
                       loop |-> loop,
                       searchText |-> _getTextForBounds(lines,
                         getBounds(primaryRange(ranges, primaryIndex))),
                       visited |-> visitedOf(ranges),
                       originalKey |-> visitKey(
                         getBounds(primaryRange(ranges, primaryIndex)).startRow,
                         getBounds(primaryRange(ranges, primaryIndex)).startCol)]
          /\ Returned("searchForward", TRUE, <<loop>>)
          /\ UNCHANGED <<ranges, primaryIndex, cursor, range, filename,
                         preferredCol, synced, overlay, tasks, exited>>
  /\ UNCHANGED <<lines, modified, history, historyIndex, clip>>

\* The body of the while loop of searchForward for what indexOf gave.
ForwardAt(index) ==
  IF index # -1
  THEN IF visitKey(scan.row, index) \notin scan.visited
       THEN ScanAdds(scan.row, index)
       ELSE ScanMoves("forward", scan.row, nextCol(index, scan.searchText))
  ELSE ScanMoves("forward", scan.row + 1, 0)

\* One test of the while condition of searchForward, and the body or what
\* follows the loop.
SearchForwardStep ==
  /\ scan.phase = "forward"
  /\ IF scan.row < getLineCount(lines)
     THEN ForwardAt(indexOf(getLine(lines, scan.row), scan.searchText, scan.col))
     ELSE IF scan.loop
     THEN ScanMoves("wrapped", 0, 0)
     ELSE ScanReturns(FALSE) /\ UNCHANGED <<ranges, primaryIndex, cursor>>
  /\ UNCHANGED <<lines, modified, history, historyIndex, clip>>

\* The body of the loop from the document start for what indexOf gave.
WrappedAt(index) ==
  IF index = -1 THEN ScanMoves("wrapped", scan.row + 1, 0)
  ELSE IF visitKey(scan.row, index) = scan.originalKey
  THEN ScanReturns(FALSE) /\ UNCHANGED <<ranges, primaryIndex, cursor>>
  ELSE IF visitKey(scan.row, index) \notin scan.visited
  THEN ScanAdds(scan.row, index)
  ELSE ScanMoves("wrapped", scan.row, nextCol(index, scan.searchText))

\* One test of the while condition of the loop from the document start, and
\* the body or the return behind the loop.
SearchWrappedStep ==
  /\ scan.phase = "wrapped"
  /\ IF scan.row < getLineCount(lines)
     THEN WrappedAt(indexOf(getLine(lines, scan.row), scan.searchText, scan.col))
     ELSE ScanReturns(FALSE) /\ UNCHANGED <<ranges, primaryIndex, cursor>>
  /\ UNCHANGED <<lines, modified, history, historyIndex, clip>>

\* The state an edit of the selection or the clipboard leaves.
Edited(res, name, input) ==
  /\ lines' = res.lines
  /\ modified' = res.modified
  /\ history' = res.history
  /\ historyIndex' = res.historyIndex
  /\ ranges' = res.ranges
  /\ primaryIndex' = res.primaryIndex
  /\ cursor' = res.cursor
  /\ Called(name, res.ret, input)

ReplaceRanges(cb) ==
  /\ Edited(replaceRanges(lines, history, historyIndex, modified, ranges,
                          primaryIndex, cursor, cb),
            "replaceRanges", cb)
  /\ UNCHANGED clip

DeleteBackward ==
  /\ Edited(replaceRanges(lines, history, historyIndex, modified, ranges,
                          primaryIndex, cursor,
                          deleteBackwardResults(lines, ranges)),
            "deleteBackward", deleteBackwardResults(lines, ranges))
  /\ UNCHANGED clip

DeleteForward ==
  /\ Edited(replaceRanges(lines, history, historyIndex, modified, ranges,
                          primaryIndex, cursor,
                          deleteForwardResults(lines, ranges)),
            "deleteForward", deleteForwardResults(lines, ranges))
  /\ UNCHANGED clip

Delete ==
  /\ Edited(delete(lines, history, historyIndex, modified, ranges,
                   primaryIndex, cursor),
            "delete", <<>>)
  /\ UNCHANGED clip

\* -------------------------------------------------------- Clipboard steps

\* Clipboard.copy(text, isLinewise)
Copy(text, isLinewise) ==
  /\ clip' = [content |-> text, isLinewise |-> isLinewise]
  /\ Called("copyText", TRUE, <<>>)
  /\ UNCHANGED <<lines, modified, history, historyIndex, cursor, ranges,
                 primaryIndex>>

CopyFromEditor ==
  /\ clip' = copyFromEditor(lines, ranges, clip).clip
  /\ Called("copy", copyFromEditor(lines, ranges, clip).success, <<>>)
  /\ UNCHANGED <<lines, modified, history, historyIndex, cursor, ranges,
                 primaryIndex>>

CutFromEditor ==
  /\ Edited(cutFromEditor(lines, history, historyIndex, modified, ranges,
                          primaryIndex, cursor, clip),
            "cut", <<>>)
  /\ clip' = cutClip(lines, ranges, clip)

PasteToEditor ==
  /\ Edited(pasteToEditor(lines, history, historyIndex, modified, ranges,
                          primaryIndex, cursor, clip),
            "paste", <<>>)
  /\ UNCHANGED clip

\* ------------------------------------------------------- TextEditor steps

\* The fields the key handlers work on.
Editor ==
  [ret |-> TRUE, lines |-> lines, modified |-> modified, history |-> history,
   historyIndex |-> historyIndex, cursor |-> cursor,
   preferredCol |-> preferredCol, ranges |-> ranges,
   primaryIndex |-> primaryIndex, clip |-> clip]

\* ui.promptInput reads a line: the screen hands its keys to the prompt.
Reading ==
  \E i \in 1..Len(tasks) : tasks[i].pc \in {"promptSave", "promptOpen"}

\* setupKeyDispatcher, setupTextInput, setupComplexKeys: a key that is
\* blocked by an overlay reaches its handler when no overlay is active.
Dispatched == ~exited /\ ~Reading /\ overlay = null

\* The handler of a key ran and left e.
Pressed(name, e) ==
  /\ Dispatched
  /\ lines' = e.lines
  /\ modified' = e.modified
  /\ history' = e.history
  /\ historyIndex' = e.historyIndex
  /\ cursor' = e.cursor
  /\ preferredCol' = e.preferredCol
  /\ ranges' = e.ranges
  /\ primaryIndex' = e.primaryIndex
  /\ clip' = e.clip
  /\ Returned(name, e.ret, <<>>)
  /\ UNCHANGED <<range, filename, scan, synced, overlay, tasks, exited>>

MoveCursor(direction) ==
  Pressed("editor.moveCursor", moveCursor(Editor, direction, FALSE))

HandleSelectionMove(direction) ==
  Pressed("handleSelectionMove", handleSelectionMove(Editor, direction))

EditorInsertChar(char) ==
  Pressed("editor.insertChar", editorInsertChar(Editor, char))

InsertNewline == Pressed("editor.insertNewline", insertNewline(Editor))

EditorDeleteChar == Pressed("editor.deleteChar", editorDeleteChar(Editor))

EditorDeleteForward ==
  Pressed("editor.deleteForward", editorDeleteForward(Editor))

SwapLines(direction) ==
  Pressed("editor.swapLines", swapLines(Editor, direction))

EditorUndo == Pressed("editor.undo", editorUndo(Editor))

EditorRedo == Pressed("editor.redo", editorRedo(Editor))

SelectNextOccurrence ==
  Pressed("editor.selectNextOccurrence", selectNextOccurrence(Editor))

HandleSelectionToggle ==
  Pressed("handleSelectionToggle", handleSelectionToggle(Editor))

HandleSelectAll == Pressed("handleSelectAll", handleSelectAll(Editor))

HandleSelectLine == Pressed("handleSelectLine", handleSelectLine(Editor))

HandleCopy == Pressed("handleCopy", handleCopy(Editor))

HandleCut == Pressed("handleCut", handleCut(Editor))

HandlePaste == Pressed("handlePaste", handlePaste(Editor))

\* --------------------------------------------- TextEditor overlay and files

\* An async call of the editor waiting at an await: the method that was
\* called (fn), the await it waits at (pc), its local action, the path it
\* writes to or reads from, the content saveFile joined before it awaits
\* writeFile, and whether the saveFile it awaited returned true.
Task(fn, pc, action, path, content) ==
  [fn |-> fn, pc |-> pc, action |-> action, path |-> path,
   content |-> content, saved |-> FALSE]

\* The call returned.
Done == Task("done", "done", "none", null, <<>>)

\* What a step tells about the call it continued.
Told(t) == <<t.fn, t.action, IF t.saved THEN "saved" ELSE "unsaved">>

\* overlayHost.hide() with a confirmation active: onHide rejects its
\* promise, confirmDiscard returns "cancel" and its caller returns.
withoutConfirm(ts) == SelectSeq(ts, LAMBDA t : t.pc # "confirm")

withoutDone(ts) == SelectSeq(ts, LAMBDA t : t.fn # "done")

\* this.save() up to its first await: the prompt for a name when the buffer
\* has none, else buffer.saveFile() up to writeFile.
callSave(t, ls, fn) ==
  IF fn = null
  THEN [t EXCEPT !.pc = "promptSave"]
  ELSE [t EXCEPT !.pc = "saveFile", !.path = fn, !.content = Join(ls)]

\* What follows the check for unsaved changes, and what therefore follows
\* the return of save() in it: quit exits, open prompts for the file,
\* openFromSearch hides the overlay and loads, save itself returns.
proceed(t) ==
  CASE t.fn = "quit" -> [task |-> Done, exits |-> TRUE, hides |-> FALSE]
    [] t.fn = "open" ->
         [task |-> [t EXCEPT !.pc = "promptOpen"], exits |-> FALSE,
          hides |-> FALSE]
    [] t.fn = "openFromSearch" ->
         [task |-> [t EXCEPT !.pc = "loadFile"], exits |-> FALSE,
          hides |-> TRUE]
    [] OTHER -> [task |-> Done, exits |-> FALSE, hides |-> FALSE]

\* The call stays at an await.
waits(t) == [task |-> t, exits |-> FALSE, hides |-> FALSE]

\* The call tasks[i] went on to res; ov is the overlay its step left.
Continued(i, res, ov) ==
  LET ts  == [tasks EXCEPT ![i] = res.task]
      ts2 == IF res.hides /\ ov # null THEN withoutConfirm(ts) ELSE ts
  IN  /\ tasks' = withoutDone(ts2)
      /\ overlay' = IF res.hides THEN null ELSE ov
      /\ exited' = res.exits

\* An async call starts while there is room for it.
MaxTasks == 2

Started(t, ts) ==
  /\ Len(ts) < MaxTasks
  /\ tasks' = Append(ts, t)

\* A key that is not blocked by an overlay reaches its handler.
Unblocked == ~exited /\ ~Reading

\* hideOverlay().
HideOverlay(name) ==
  /\ Unblocked
  /\ overlay # null
  /\ overlay' = null
  /\ tasks' = withoutConfirm(tasks)
  /\ Returned(name, TRUE, <<>>)
  /\ UNCHANGED <<lines, filename, modified, history, historyIndex, cursor,
                 preferredCol, ranges, primaryIndex, range, clip, scan,
                 synced, exited>>

\* The steps that leave the buffer, the cursor and the selection alone.
FilesUnchanged ==
  UNCHANGED <<lines, modified, history, historyIndex, cursor, preferredCol,
              ranges, primaryIndex, range, clip, scan, synced>>

\* run() with a file argument: loadFile is called and not awaited.
Run(path) ==
  /\ op = "new"
  /\ Started(Task("run", "loadFile", "none", path, <<>>), tasks)
  /\ Returned("editor.run", TRUE, <<>>)
  /\ FilesUnchanged
  /\ UNCHANGED <<filename, overlay, exited>>

\* C-s: save().
Save ==
  /\ Dispatched
  /\ Started(callSave(Task("save", "save", "none", null, <<>>), lines,
                      filename), tasks)
  /\ Returned("editor.save", TRUE, <<>>)
  /\ FilesUnchanged
  /\ UNCHANGED <<filename, overlay, exited>>

\* C-o: open() up to the confirmation or the prompt.
Open ==
  /\ Dispatched
  /\ IF modified
     THEN /\ Started(Task("open", "confirm", "none", null, <<>>), tasks)
          /\ overlay' = "confirmation"
     ELSE /\ Started(Task("open", "promptOpen", "none", null, <<>>), tasks)
          /\ overlay' = overlay
  /\ Returned("editor.open", TRUE, <<>>)
  /\ FilesUnchanged
  /\ UNCHANGED <<filename, exited>>

\* C-q: handleQuit() hides an active overlay and calls quit(). A confirmation
\* that was hidden rejects its promise; show() of that confirmation then
\* hides the active component again, which by now is the confirmation quit()
\* has just shown, so that quit() gets "cancel" too.
HandleQuit ==
  LET ts == IF overlay # null THEN withoutConfirm(tasks) ELSE tasks
      t  == Task("quit", "confirm", "none", null, <<>>)
  IN  /\ Unblocked
      /\ IF modified
         THEN IF overlay = "confirmation"
              THEN /\ tasks' = ts
                   /\ overlay' = null
                   /\ exited' = exited
                   /\ Returned("handleQuit", FALSE, Told(t))
              ELSE /\ Started(t, ts)
                   /\ overlay' = "confirmation"
                   /\ exited' = exited
                   /\ Returned("handleQuit", FALSE, Told(t))
         ELSE /\ tasks' = ts
              /\ overlay' = null
              /\ exited' = TRUE
              /\ Returned("handleQuit", TRUE, Told(t))
      /\ FilesUnchanged
      /\ UNCHANGED filename

\* C-p: handleFileSearch() hides an active overlay, or shows the file search.
HandleFileSearch ==
  \/ HideOverlay("handleFileSearch")
  \/ /\ Unblocked
     /\ overlay = null
     /\ overlay' = "fileSearch"
     /\ Returned("handleFileSearch", TRUE, <<>>)
     /\ FilesUnchanged
     /\ UNCHANGED <<filename, tasks, exited>>

\* escape: handleEscape() hides an active overlay, or clears the selection.
HandleEscape ==
  \/ HideOverlay("editor.handleEscape")
  \/ Pressed("editor.handleEscape", handleEscape(Editor))

\* A file is chosen in the file search: openFromSearch(meta) up to the
\* confirmation (show() hides the file search for it) or up to readFile.
OpenFromSearch(path) ==
  /\ Unblocked
  /\ overlay = "fileSearch"
  /\ IF modified
     THEN /\ Started(Task("openFromSearch", "confirm", "none", path, <<>>),
                     tasks)
          /\ overlay' = "confirmation"
     ELSE /\ Started(Task("openFromSearch", "loadFile", "none", path, <<>>),
                     tasks)
          /\ overlay' = null
  /\ Returned("editor.openFromSearch", TRUE, <<>>)
  /\ FilesUnchanged
  /\ UNCHANGED <<filename, exited>>

\* The confirmation resolves with the chosen action ("cancel" also for
\* escape): show() hides it and confirmDiscard returns the action.
ConfirmResolves(action) ==
  \E i \in 1..Len(tasks) :
    LET t   == [tasks[i] EXCEPT !.action = action]
        res == CASE action = "cancel" ->
                      [task |-> Done, exits |-> FALSE, hides |-> FALSE]
                 [] action = "save" -> waits(callSave(t, lines, filename))
                 [] OTHER -> proceed(t)
    IN  /\ ~exited
        /\ tasks[i].pc = "confirm"
        /\ Continued(i, res, null)
        /\ Returned("confirmDiscard", res.exits, Told(t))
        /\ FilesUnchanged
        /\ UNCHANGED filename

\* The "Save as: " prompt resolves: with no name save() returns, with a name
\* it sets buffer.filename and calls buffer.saveFile().
PromptSaveResolves(value) ==
  \E i \in 1..Len(tasks) :
    LET t   == tasks[i]
        res == IF value = ""
               THEN proceed(t)
               ELSE waits(callSave(t, lines, value))
    IN  /\ ~exited
        /\ t.pc = "promptSave"
        /\ filename' = IF value = "" THEN filename ELSE value
        /\ Continued(i, res, overlay)
        /\ Returned("promptSave", value # "", Told(t))
        /\ FilesUnchanged

\* The "Open file: " prompt resolves: with no name open() returns, with a
\* name it calls buffer.loadFile(target).
PromptOpenResolves(value) ==
  \E i \in 1..Len(tasks) :
    LET t   == tasks[i]
        res == IF value = ""
               THEN [task |-> Done, exits |-> FALSE, hides |-> FALSE]
               ELSE waits([t EXCEPT !.pc = "loadFile", !.path = value])
    IN  /\ ~exited
        /\ t.pc = "promptOpen"
        /\ Continued(i, res, overlay)
        /\ Returned("promptOpen", value # "", Told(t))
        /\ FilesUnchanged
        /\ UNCHANGED filename

\* writeFile of a saveFile call resolves or rejects: saveFile marks the
\* buffer saved or returns false, save() returns and its caller goes on.
WriteFileCompletes(resolves) ==
  \E i \in 1..Len(tasks) :
    LET t   == [tasks[i] EXCEPT !.saved = resolves]
        res == proceed(t)
    IN  /\ ~exited
        /\ tasks[i].pc = "saveFile"
        /\ filename' = IF resolves THEN t.path ELSE filename
        /\ modified' = IF resolves THEN FALSE ELSE modified
        /\ synced' = IF resolves THEN syncedWith(t.content) ELSE synced
        /\ Continued(i, res, overlay)
        /\ Returned("writeFile", resolves, Told(t))
        /\ UNCHANGED <<lines, history, historyIndex, cursor, preferredCol,
                       ranges, primaryIndex, range, clip, scan>>

\* readFile of a loadFile call resolves with content or rejects: loadFile
\* replaces the buffer or returns false; open and openFromSearch move the
\* cursor to the start when it returned true.
ReadFileCompletes(content, resolves) ==
  \E i \in 1..Len(tasks) :
    LET t   == tasks[i]
        res == loadFile(lines, filename, modified, history, historyIndex,
                        synced, t.path, content, resolves)
        c   == IF res.ret /\ t.fn # "run"
               THEN moveToStart(res.lines, cursor, preferredCol)
               ELSE [cursor |-> cursor, preferredCol |-> preferredCol]
    IN  /\ ~exited
        /\ t.pc = "loadFile"
        /\ lines' = res.lines
        /\ filename' = res.filename
        /\ modified' = res.modified
        /\ history' = res.history
        /\ historyIndex' = res.historyIndex
        /\ synced' = res.synced
        /\ cursor' = c.cursor
        /\ preferredCol' = c.preferredCol
        /\ Continued(i, [task |-> Done, exits |-> FALSE, hides |-> FALSE],
                     overlay)
        /\ Returned("readFile", res.ret, Told(t))
        /\ UNCHANGED <<ranges, primaryIndex, range, clip, scan>>

\* ------------------------------------------------------------- properties

\* The history a snapshot of ls leaves: the entries up to the index, then
\* ls, without the oldest entry when that makes more than maxHistory.
Snapshot(h, idx, ls) ==
  IF idx + 2 <= maxHistory THEN Append(SubSeq(h, 1, idx + 1), ls)
  ELSE Append(SubSeq(h, 2, idx + 1), ls)

\* C1 as stated: a replaceRanges call (deleteBackward and deleteForward are
\* such calls) that returns true makes the history one entry longer, or
\* leaves it at the cap.
C1_Stated ==
  [][(op' \in ReplaceOps /\ ret') =>
       \/ Len(history') = Len(history) + 1
       \/ Len(history) = maxHistory /\ Len(history') = maxHistory]_vars

\* C1: a replaceRanges call that returns true takes exactly one snapshot,
\* of the lines before the call, whatever the number of ranges and the
\* texts: the history becomes its entries up to historyIndex followed by
\* that snapshot (entries an undo left behind the index are cut off, so
\* the length is historyIndex + 2 and need not grow), and historyIndex
\* points at it.
C1_OneSnapshot ==
  [][(op' \in ReplaceOps /\ ret') =>
       /\ history' = Snapshot(history, historyIndex, lines)
       /\ historyIndex' = Len(history') - 1]_vars

\* Two ranges were replaced after an undo: the snapshot cut off an entry.
C1_Witness ==
  /\ op = "replaceRanges" /\ ret
  /\ Len(arg) = 2 /\ \A i \in 1..2 : arg[i].kind = "string"
  /\ dropped = 1
  /\ Len(history) = 2 /\ historyIndex = 1

\* C2 as stated: after a replaceRanges call returned true, one undo()
\* returns true and restores the lines the buffer had before the call.
C2_UndoRestores ==
  [][(op' \in ReplaceOps /\ ret') =>
       /\ undo(history', historyIndex', lines').ret
       /\ undo(history', historyIndex', lines').lines = lines]_vars

\* C3: replaceRanges with a callback that returns null for every range
\* returns false and leaves lines, modified, history, historyIndex, ranges,
\* primaryIndex and the cursor unchanged.
C3_AllNull ==
  [][(op' = "replaceRanges" /\ \A i \in 1..Len(arg') : arg'[i] = Null) =>
       /\ ~ret'
       /\ UNCHANGED <<lines, modified, history, historyIndex, ranges,
                      primaryIndex, cursor>>]_vars

\* replaceRanges was called on two ranges, one of them a selection, with
\* null for both.
C3_Witness ==
  /\ op = "replaceRanges" /\ ~ret
  /\ arg = <<Null, Null>>
  /\ Len(ranges) = 2 /\ hasContentSelection(ranges)
  /\ lines = <<<<"a", "b">>, <<"a", "b">>>>

\* The reference a multi-range replacement is compared with works on the
\* text of the buffer, the lines joined by NL, and on offsets into it.
RECURSIVE lineStart(_, _)
lineStart(ls, row) ==
  IF row = 0 THEN 0
  ELSE lineStart(ls, row - 1) + Len(getLine(ls, row - 1)) + 1

offsetOf(ls, row, col) == lineStart(ls, row) + col

inBuffer(ls, row, col) ==
  row >= 0 /\ row < Len(ls) /\ col >= 0 /\ col <= Len(getLine(ls, row))

spanStart(ls, a) == offsetOf(ls, a.bounds.startRow, a.bounds.startCol)
spanEnd(ls, a) == offsetOf(ls, a.bounds.endRow, a.bounds.endCol)

SpansInBuffer(ls, actions) ==
  \A i \in 1..Len(actions) :
    /\ inBuffer(ls, actions[i].bounds.startRow, actions[i].bounds.startCol)
    /\ inBuffer(ls, actions[i].bounds.endRow, actions[i].bounds.endCol)

\* No two spans have a position of one strictly inside the other or a
\* character in common.
SpansDisjoint(ls, actions) ==
  \A i, j \in 1..Len(actions) :
    i < j => ~(/\ spanStart(ls, actions[i]) < spanEnd(ls, actions[j])
               /\ spanStart(ls, actions[j]) < spanEnd(ls, actions[i]))

\* Each span ends at or before the start of the next one in the order of
\* the set.
SpansInOrder(ls, actions) ==
  \A i \in 1..(Len(actions) - 1) :
    spanEnd(ls, actions[i]) <= spanStart(ls, actions[i + 1])

\* What action i puts in the place of its span.
replacement(ls, a) ==
  IF a.perform THEN a.text
  ELSE SubSeq(Join(ls), spanStart(ls, a) + 1, spanEnd(ls, a))

\* The text up to the end of the replacement of action i when every span
\* is replaced at once.
RECURSIVE simultaneousUpTo(_, _, _)
simultaneousUpTo(ls, actions, i) ==
  IF i = 0 THEN <<>>
  ELSE simultaneousUpTo(ls, actions, i - 1)
       \o SubSeq(Join(ls),
                 (IF i = 1 THEN 0 ELSE spanEnd(ls, actions[i - 1])) + 1,
                 spanStart(ls, actions[i]))
       \o replacement(ls, actions[i])

simultaneous(ls, actions) ==
  simultaneousUpTo(ls, actions, Len(actions))
  \o SubSeq(Join(ls), spanEnd(ls, actions[Len(actions)]) + 1, Len(Join(ls)))

\* The actions by the start and then the end of their spans, actions with
\* the same span in the order they have.
spanBefore(ls, a, b) ==
  \/ spanStart(ls, a) < spanStart(ls, b)
  \/ spanStart(ls, a) = spanStart(ls, b) /\ spanEnd(ls, a) <= spanEnd(ls, b)

RECURSIVE inDocumentOrder(_, _)
inDocumentOrder(ls, actions) ==
  IF Len(actions) = 0 THEN <<>>
  ELSE LET n == Len(actions)
           front == inDocumentOrder(ls, SubSeq(actions, 1, n - 1))
           k == Cardinality({i \in 1..(n - 1) : spanBefore(ls, front[i], actions[n])})
       IN  SubSeq(front, 1, k) \o <<actions[n]>> \o SubSeq(front, k + 1, n - 1)

\* The position in the lines ls of offset off of their text.
positionOf(ls, off) ==
  LET row == Cardinality({k \in 1..off : Join(ls)[k] = NL})
  IN  [row |-> row, col |-> off - lineStart(ls, row)]

\* C4 as stated: when the target spans are pairwise disjoint and inside the
\* buffer, replaceRanges leaves the lines of the simultaneous replacement.
C4_Stated ==
  [][LET actions == makeActions(ranges, arg')
     IN  (/\ op' \in ReplaceOps /\ ret'
          /\ SpansInBuffer(lines, actions)
          /\ SpansDisjoint(lines, actions)) =>
           lines' = Split(simultaneous(lines, inDocumentOrder(lines, actions)))]_vars

\* C4: when the target spans lie inside the buffer and, in the order of the
\* range set, each ends at or before the start of the next (pairwise
\* disjoint spans of which an empty one never follows a non-empty one that
\* starts at the same position), replaceRanges leaves the lines of the
\* simultaneous replacement: every performed span replaced by its text,
\* every skipped range untouched.
C4_Simultaneous ==
  [][LET actions == makeActions(ranges, arg')
     IN  (/\ op' \in ReplaceOps /\ ret'
          /\ SpansInBuffer(lines, actions)
          /\ SpansInOrder(lines, actions)) =>
           lines' = Split(simultaneous(lines, inDocumentOrder(lines, actions)))]_vars

\* Two cursors on two rows of "ab", "ab" got a text with a line break and
\* a plain text: the second insertion landed one row further down.
C4_Witness ==
  /\ op = "replaceRanges" /\ ret
  /\ arg = <<Text(<<NL, "b">>), Text(<<"b">>)>>
  /\ history = <<<<<<"a", "b">>, <<"a", "b">>>>>>
  /\ lines = <<<<"a">>, <<"b", "b">>, <<"a", "b", "b">>>>

\* C5 as stated, for spans inside the buffer that follow one another: after
\* replaceRanges returned true there is one empty range per original range,
\* and for every performed action a range at the position right after its
\* inserted text in the resulting lines.
C5_RangesAtEnds ==
  [][LET actions == makeActions(ranges, arg')
         endOf(i) == Len(simultaneousUpTo(lines, actions, i))
     IN  (/\ op' \in ReplaceOps /\ ret'
          /\ SpansInBuffer(lines, actions)
          /\ SpansInOrder(lines, actions)) =>
           /\ Len(ranges') = Len(ranges)
           /\ \A k \in 1..Len(ranges') : isEmpty(ranges'[k])
           /\ \A i \in 1..Len(actions) :
                actions[i].perform =>
                  \E k \in 1..Len(ranges') :
                    /\ ranges'[k].hr = positionOf(lines', endOf(i)).row
                    /\ ranges'[k].hc = positionOf(lines', endOf(i)).col]_vars

\* C6 as stated: ranges is sorted ascending by (startRow, startCol) of the
\* ranges' normalized bounds.
C6_Sorted ==
  \A i \in 1..(Len(ranges) - 1) : compareRanges(ranges[i], ranges[i + 1]) <= 0

\* C7 as stated: primaryIndex is -1 when ranges is empty and an index of
\* ranges when it is not.
C7_PrimaryValid ==
  IF Len(ranges) = 0 THEN primaryIndex = -1
  ELSE 0 <= primaryIndex /\ primaryIndex < Len(ranges)

\* C8: the buffer holds at least one line.
C8_OneLine == Len(lines) >= 1

\* A cut at two cursors on the only line removed it and left one empty
\* line.
C8_Witness ==
  /\ op = "cut" /\ ret
  /\ clip.isLinewise
  /\ Len(history[Len(history)]) = 1
  /\ Len(history[Len(history)][1]) > 0
  /\ lines = <<<<>>>>

HistoryInBounds ==
  /\ -1 <= historyIndex /\ historyIndex <= Len(history) - 1
  /\ Len(history) <= maxHistory

\* C9 as stated: -1 <= historyIndex <= history.length - 1 and
\* history.length <= 100 in every state, and a snapshot taken with the list
\* at the maximum evicts the oldest entry and leaves historyIndex at the
\* new last entry.
C9_Stated ==
  /\ HistoryInBounds
  /\ [][/\ HistoryInBounds'
         /\ (op' \in EditOps /\ ret' /\ Len(history) = maxHistory) =>
              /\ Len(history') = maxHistory
              /\ SubSeq(history', 1, maxHistory - 1) = Tail(history)
              /\ historyIndex' = maxHistory - 1]_vars

\* C9: -1 <= historyIndex <= history.length - 1 and history.length <= 100
\* in every state; a snapshot taken with the list at the maximum leaves
\* historyIndex at the new last entry, and it evicts the oldest entry when
\* historyIndex was at the last entry; after an undo it cuts the entries
\* behind historyIndex off instead and evicts nothing.
C9_Cap ==
  /\ HistoryInBounds
  /\ [][/\ HistoryInBounds'
         /\ (op' \in EditOps /\ ret' /\ Len(history) = maxHistory) =>
              /\ historyIndex' = Len(history') - 1
              /\ IF historyIndex = maxHistory - 1
                 THEN /\ Len(history') = maxHistory
                      /\ SubSeq(history', 1, maxHistory - 1) = Tail(history)
                 ELSE /\ Len(history') = historyIndex + 2
                      /\ SubSeq(history', 1, historyIndex + 1)
                           = SubSeq(history, 1, historyIndex + 1)]_vars

\* The hundred-and-first character was typed: the snapshot of the first is
\* gone, the list is full and historyIndex at its last entry.
C9_Witness ==
  /\ op = "insertChar" /\ dropped = 0
  /\ Len(history) = maxHistory /\ historyIndex = maxHistory - 1
  /\ Len(history[1][1]) = 2
  /\ history[maxHistory] = lines

\* C10: a snapshot taken by any edit while there are entries behind
\* historyIndex cuts them off before it is appended, so that redo() returns
\* false right after the edit; and a redo() that returns false changes
\* nothing, so no sequence of redo() calls brings an undone state back.
C10_RedoDiscarded ==
  [][/\ (op' \in EditOps /\ ret' /\ canRedo(history, historyIndex)) =>
          /\ Len(history') = historyIndex + 2
          /\ SubSeq(history', 1, historyIndex + 1)
               = SubSeq(history, 1, historyIndex + 1)
          /\ historyIndex' = historyIndex + 1
          /\ ~redo(history', historyIndex', lines').ret
     /\ (op' = "redo" /\ ~canRedo(history, historyIndex)) =>
          /\ ~ret'
          /\ UNCHANGED <<lines, history, historyIndex>>]_vars

\* An edit after an undo: its snapshot cut an entry off and nothing is left
\* to redo.
C10_Witness ==
  /\ op \in EditOps /\ ret
  /\ dropped >= 1
  /\ historyIndex = Len(history) - 1
  /\ ~redo(history, historyIndex, lines).ret

\* C11: undo() returns false exactly when historyIndex <= 0, redo() returns
\* false exactly when historyIndex is at the last entry (history.length - 1),
\* and a call that returns false leaves lines, modified, history and
\* historyIndex as they were.
C11_Boundary ==
  [][/\ op' = "undo" =>
          /\ ~ret' <=> historyIndex <= 0
          /\ ~ret' => UNCHANGED bufVars
     /\ op' = "redo" =>
          /\ ~ret' <=> historyIndex = Len(history) - 1
          /\ ~ret' => UNCHANGED bufVars]_vars

\* An undo() at the first entry returned false, on a buffer that holds
\* something else than that entry.
C11_Witness ==
  /\ op = "undo" /\ ~ret
  /\ historyIndex = 0
  /\ lines # history[1]

\* (row, col) is at or before (r, c) in row-major order.
AtOrBefore(row, col, r, c) == row < r \/ (row = r /\ col <= c)

\* C12: getBounds() of a SelectionRange returns its anchor and its head,
\* ordered so that (startRow, startCol) <= (endRow, endCol) in row-major
\* order, whatever the anchor and the head are.
C12_Ordered ==
  op = "getBounds" =>
    /\ AtOrBefore(ret.startRow, ret.startCol, ret.endRow, ret.endCol)
    /\ \/ /\ <<ret.startRow, ret.startCol>> = <<range.ar, range.ac>>
          /\ <<ret.endRow, ret.endCol>> = <<range.hr, range.hc>>
       \/ /\ <<ret.startRow, ret.startCol>> = <<range.hr, range.hc>>
          /\ <<ret.endRow, ret.endCol>> = <<range.ar, range.ac>>

\* The bounds of a range whose head is on a row before its anchor's were
\* taken.
C12_Witness ==
  /\ op = "getBounds"
  /\ range.hr < range.ar /\ range.hc > range.ac
  /\ ret = Bounds(range.hr, range.hc, range.ar, range.ac)

\* C13: contains(row, col) is true exactly when start <= (row, col) < end in
\* row-major order of the range's bounds: the end position is not contained,
\* and an empty range contains nothing.
C13_HalfOpen ==
  op = "contains" =>
    LET b == getBounds(range)
    IN  /\ ret <=> /\ AtOrBefore(b.startRow, b.startCol, arg[1], arg[2])
                   /\ AtOrBefore(arg[1], arg[2], b.endRow, b.endCol)
                   /\ <<arg[1], arg[2]>> # <<b.endRow, b.endCol>>
        /\ <<arg[1], arg[2]>> = <<b.endRow, b.endCol>> => ~ret
        /\ isEmpty(range) => ~ret

\* The end position of a range over two rows was asked for and is not
\* contained.
C13_Witness ==
  /\ op = "contains" /\ ~ret
  /\ ~isEmpty(range)
  /\ getBounds(range).startRow < getBounds(range).endRow
  /\ <<arg[1], arg[2]>> = <<getBounds(range).endRow, getBounds(range).endCol>>

\* The position (r1, c1) is before (r2, c2) in row-major order.
Before(r1, c1, r2, c2) == r1 < r2 \/ (r1 = r2 /\ c1 < c2)

\* The start positions of the occurrences of text in the lines.
Occurrences(ls, text) ==
  {p \in [row : 0..(Len(ls) - 1), col : 0..MaxOccCols] :
     /\ p.col + Len(text) <= Len(getLine(ls, p.row))
     /\ SubSeq(getLine(ls, p.row), p.col + 1, p.col + Len(text)) = text}

\* The occurrences that do not start where one of the ranges starts.
Unselected(ls, text, rs) ==
  {p \in Occurrences(ls, text) : visitKey(p.row, p.col) \notin visitedOf(rs)}

\* An occurrence that starts inside an occurrence at which a range starts.
Hidden(ls, text, rs, p) ==
  \E q \in Occurrences(ls, text) \ Unselected(ls, text, rs) :
    q.row = p.row /\ q.col < p.col /\ p.col < q.col + Len(text)

\* The number of times x is an element of seq.
Count(seq, x) == Cardinality({i \in 1..Len(seq) : seq[i] = x})

\* Exactly the range r was added to the ranges; it is the primary range and
\* the cursor is at its head.
AddedAsPrimary(r) ==
  /\ Len(ranges') = Len(ranges) + 1
  /\ \A i \in 1..Len(ranges') :
       Count(ranges', ranges'[i])
         = Count(ranges, ranges'[i]) + (IF ranges'[i] = r THEN 1 ELSE 0)
  /\ hasPrimaryRange(ranges', primaryIndex')
  /\ primaryRange(ranges', primaryIndex') = r
  /\ cursor' = [cursor EXCEPT !.row = r.hr, !.col = r.hc]

\* An addNextOccurrence step on an active selection whose primary range has
\* a text, that returns true.
OccurrenceStep ==
  /\ op' = "addNextOccurrence" /\ ret'
  /\ active(ranges) /\ hasPrimaryRange(ranges, primaryIndex)

\* C14 as stated: the range added covers the first occurrence from the
\* primary range's end on (with loop, and none there, from the document
\* start on) that does not start where a range starts.
C14_Stated ==
  [][OccurrenceStep =>
       LET b == getBounds(primaryRange(ranges, primaryIndex))
           text == _getTextForBounds(lines, b)
           free == Unselected(lines, text, ranges)
           after == {p \in free : ~Before(p.row, p.col, b.endRow, b.endCol)}
           from == IF after # {} THEN after ELSE free
           first == CHOOSE p \in from :
                      \A q \in from : ~Before(q.row, q.col, p.row, p.col)
       IN  /\ Len(text) > 0
           /\ from # {}
           /\ after = {} => arg'[1]
           /\ AddedAsPrimary(Range(first.row, first.col,
                                   first.row, first.col + Len(text)))]_vars

\* C14: addNextOccurrence, called on an active selection whose primary
\* range has a text and returning true, added exactly one range; it covers
\* an occurrence of that text that does not start where a range started, it
\* is the new primary range and the cursor is at its head.  The occurrence
\* is at or after the primary range's end, or, with loop and every such
\* occurrence passed over, anywhere; an occurrence before it in that scan
\* that starts where no range started is passed over only when it starts
\* inside an occurrence at which a range started.
C14_NextOccurrence ==
  [][OccurrenceStep =>
       LET b == getBounds(primaryRange(ranges, primaryIndex))
           text == _getTextForBounds(lines, b)
           free == Unselected(lines, text, ranges)
           after == {p \in free : ~Before(p.row, p.col, b.endRow, b.endCol)}
           new == primaryRange(ranges', primaryIndex')
           passed(from) ==
             \A q \in from : Before(q.row, q.col, new.ar, new.ac) =>
                                Hidden(lines, text, ranges, q)
       IN  /\ Len(text) > 0
           /\ new = Range(new.ar, new.ac, new.ar, new.ac + Len(text))
           /\ [row |-> new.ar, col |-> new.ac] \in free
           /\ AddedAsPrimary(new)
           /\ \/ [row |-> new.ar, col |-> new.ac] \in after /\ passed(after)
              \/ /\ arg'[1]
                 /\ \A q \in after : Hidden(lines, text, ranges, q)
                 /\ passed(free)]_vars

\* A call without loop added the occurrence behind the primary range, and a
\* call with loop then came back to the first occurrence of the document.
C14_Witness ==
  /\ op = "addNextOccurrence" /\ ret /\ arg[1]
  /\ Len(ranges) = 3
  /\ primaryIndex = 0
  /\ getBounds(ranges[1]).startRow = 0 /\ getBounds(ranges[1]).startCol = 0
  /\ cursor = [row |-> ranges[1].hr, col |-> ranges[1].hc]

\* No two ranges start at one position.
DistinctStarts ==
  \A i, j \in 1..Len(ranges) :
    (/\ getBounds(ranges[i]).startRow = getBounds(ranges[j]).startRow
     /\ getBounds(ranges[i]).startCol = getBounds(ranges[j]).startCol) => i = j

\* C15: after addNextOccurrence calls that start from one selected
\* occurrence the ranges start at pairwise distinct positions; a call
\* without loop returns false when no occurrence that is not selected is
\* left at or after the primary range's end; a call with loop that finds
\* nothing there adds only an occurrence before the primary range's start;
\* and with every occurrence selected a call returns false and leaves
\* ranges, primaryIndex and cursor as they were.
C15_NoRepeat ==
  /\ DistinctStarts
  /\ [][(/\ op' = "addNextOccurrence"
          /\ active(ranges) /\ hasPrimaryRange(ranges, primaryIndex)) =>
         LET b == getBounds(primaryRange(ranges, primaryIndex))
             text == _getTextForBounds(lines, b)
             free == Unselected(lines, text, ranges)
             after == {p \in free : ~Before(p.row, p.col, b.endRow, b.endCol)}
             new == primaryRange(ranges', primaryIndex')
         IN  /\ (~arg'[1] /\ after = {}) => ~ret'
             /\ (ret' /\ [row |-> new.ar, col |-> new.ac] \notin after) =>
                  /\ arg'[1]
                  /\ Before(new.ar, new.ac, b.startRow, b.startCol)
             /\ free = {} =>
                  /\ ~ret'
                  /\ UNCHANGED <<ranges, primaryIndex, cursor>>]_vars

\* Calls with and without loop selected the three occurrences of a word on
\* two lines, and one more call with loop returned false.
C15_Witness ==
  /\ op = "addNextOccurrence" /\ ~ret /\ arg[1]
  /\ Len(ranges) = 3 /\ Len(lines) = 2
  /\ hasPrimaryRange(ranges, primaryIndex)
  /\ Unselected(lines,
                _getTextForBounds(lines, getBounds(primaryRange(ranges, primaryIndex))),
                ranges) = {}

\* The first n characters of text without those at the offsets offs.
RECURSIVE Without(_, _, _)
Without(text, offs, n) ==
  IF n = 0 THEN <<>>
  ELSE Without(text, offs, n - 1)
       \o (IF (n - 1) \in offs THEN <<>> ELSE <<text[n]>>)

\* The offsets of the ranges' heads in the text of the lines.
CursorOffsets(ls, rs) == {offsetOf(ls, rs[i].hr, rs[i].hc) : i \in 1..Len(rs)}

\* The ranges are cursors at pairwise distinct positions of the buffer.
CursorSet(ls, rs) ==
  /\ active(rs)
  /\ \A i \in 1..Len(rs) : isEmpty(rs[i]) /\ inBuffer(ls, rs[i].hr, rs[i].hc)
  /\ \A i, j \in 1..Len(rs) : rs[i] = rs[j] => i = j

RECURSIVE LinesOfCursorRows(_, _, _)
LinesOfCursorRows(ls, rs, n) ==
  IF n = 0 THEN <<>>
  ELSE LinesOfCursorRows(ls, rs, n - 1)
       \o (IF \E i \in 1..Len(rs) : rs[i].hr = n - 1
           THEN <<getLine(ls, n - 1)>> ELSE <<>>)

\* A copyFromEditor step on two or more ranges that are all empty and at
\* positions of the buffer.
CursorCopy ==
  /\ op' = "copy"
  /\ Len(ranges) >= 2
  /\ \A i \in 1..Len(ranges) :
       isEmpty(ranges[i]) /\ inBuffer(lines, ranges[i].hr, ranges[i].hc)

\* C17 as stated: copyFromEditor on two or more ranges, all empty, succeeds
\* and leaves on the clipboard the lines of the cursor rows, one line per
\* row, in ascending order of the rows, joined by line breaks, with
\* isLinewise = true; the buffer, its history and the selection are as they
\* were.
C17_Stated ==
  [][CursorCopy =>
       /\ ret'
       /\ clip'.content = Join(LinesOfCursorRows(lines, ranges, Len(lines)))
       /\ clip'.isLinewise
       /\ UNCHANGED <<lines, modified, history, historyIndex, ranges,
                      primaryIndex, cursor>>]_vars

\* A pasteToEditor step with content on the clipboard and two or more
\* ranges, all of them empty and at positions of the buffer.
CursorPaste ==
  /\ op' = "paste"
  /\ Len(clip.content) > 0
  /\ Len(ranges) >= 2
  /\ \A i \in 1..Len(ranges) :
       isEmpty(ranges[i]) /\ inBuffer(lines, ranges[i].hr, ranges[i].hc)

\* Cursor i, counted from 0 in ascending order, gets line i mod N of the N
\* lines of the content.
LinePerCursor(rs, content) ==
  [i \in 1..Len(rs) |->
     [perform |-> TRUE, bounds |-> getBounds(sortRanges(rs)[i]),
      text |-> Split(content)[((i - 1) % Len(Split(content))) + 1]]]

\* C18 as stated: in a paste at C >= 2 cursors of a content of N lines,
\* lines that are empty among them, cursor i in ascending order receives
\* line i mod N, and nothing else changes in the text.
C18_Distribution ==
  [][CursorPaste =>
       /\ ret'
       /\ lines' = Split(simultaneous(lines, LinePerCursor(ranges, clip.content)))]_vars

\* A pasteToEditor step with content on the clipboard and a selection with
\* a range that is not empty, the ranges lying in the buffer one behind the
\* other.
SelectionPaste ==
  /\ op' = "paste"
  /\ Len(clip.content) > 0
  /\ hasContentSelection(ranges)
  /\ SpansInBuffer(lines, makeActions(ranges, [i \in 1..Len(ranges) |-> Null]))
  /\ SpansInOrder(lines, makeActions(ranges, [i \in 1..Len(ranges) |-> Null]))

\* What a paste may put at a cursor that stands beside the selected ranges:
\* nothing, the content, or one of its lines.
AtCursor(content) ==
  {<<>>, content} \cup {Split(content)[k] : k \in 1..Len(Split(content))}

\* C19 as stated: a paste on a selection with at least one range that is
\* not empty, and any number of cursors beside it, replaces the text of
\* every range that is not empty by the whole content of the clipboard.
C19_SelectionReplaced ==
  [][SelectionPaste =>
       /\ ret'
       /\ \E texts \in [1..Len(ranges) -> AtCursor(clip.content)] :
            /\ \A i \in 1..Len(ranges) :
                 ~isEmpty(sortRanges(ranges)[i]) => texts[i] = clip.content
            /\ lines' =
                 Split(simultaneous(lines,
                   [i \in 1..Len(ranges) |->
                      [perform |-> TRUE,
                       bounds |-> getBounds(sortRanges(ranges)[i]),
                       text |-> texts[i]]]))]_vars

\* A pasteToEditor step with content on the clipboard, no selection or one
\* empty range, and the cursor at a position of the buffer.
SingleCursorPaste ==
  /\ op' = "paste"
  /\ Len(clip.content) > 0
  /\ Len(ranges) = 0 \/ (Len(ranges) = 1 /\ isEmpty(ranges[1]))
  /\ inBuffer(lines, cursor.row, cursor.col)

\* C20: a single-cursor paste of a linewise content of k lines puts those
\* lines, in order, into the rows cursor.row + 1 .. cursor.row + k, leaves
\* the other rows as they were and the cursor at (old row + 1, 0); a paste
\* of any other content leaves the text with the content inserted at the
\* cursor and the cursor at the end of the inserted text.  Either way one
\* snapshot is recorded.
C20_SingleCursor ==
  [][SingleCursorPaste =>
       LET parts == Split(clip.content)
           at == offsetOf(lines, cursor.row, cursor.col)
           text == Join(lines)
       IN  /\ ret'
           /\ IF clip.isLinewise
              THEN /\ lines' = SubSeq(lines, 1, cursor.row + 1) \o parts
                                \o SubSeq(lines, cursor.row + 2, Len(lines))
                   /\ cursor' = [row |-> cursor.row + 1, col |-> 0]
              ELSE /\ lines' = Split(SubSeq(text, 1, at) \o clip.content
                                     \o SubSeq(text, at + 1, Len(text)))
                   /\ cursor' = positionOf(lines', at + Len(clip.content))
           /\ Len(history') = historyIndex + 2
           /\ SubSeq(history', 1, historyIndex + 1)
                = SubSeq(history, 1, historyIndex + 1)
           /\ historyIndex' = historyIndex + 1]_vars

\* A linewise content of two lines was pasted with the cursor on the first
\* of two rows: the two lines are rows 1 and 2 and the cursor is at (1,0).
C20_Witness ==
  /\ op = "paste" /\ ret
  /\ clip = [content |-> <<"a", NL, "b">>, isLinewise |-> TRUE]
  /\ Len(ranges) <= 1 /\ ~hasContentSelection(ranges)
  /\ lines = << <<"a", "b">>, <<"a">>, <<"b">>, <<"a", "b">> >>
  /\ cursor = [row |-> 1, col |-> 0]
  /\ Len(history) = 1

\* The first n rows of the lines without the rows on which a cursor is.
RECURSIVE RowsWithoutCursor(_, _, _)
RowsWithoutCursor(ls, rs, n) ==
  IF n = 0 THEN <<>>
  ELSE RowsWithoutCursor(ls, rs, n - 1)
       \o (IF \E i \in 1..Len(rs) : rs[i].hr = n - 1 THEN <<>> ELSE <<ls[n]>>)

\* A cutFromEditor step on two or more ranges that are all empty and at
\* positions of the buffer.
CursorCut ==
  /\ op' = "cut"
  /\ Len(ranges) >= 2
  /\ \A i \in 1..Len(ranges) :
       isEmpty(ranges[i]) /\ inBuffer(lines, ranges[i].hr, ranges[i].hc)

\* C21: cutFromEditor on two or more ranges, all empty, removes exactly the
\* rows on which a cursor is, each once, and leaves the other rows in their
\* order, or the one line "" when a cursor was on every row; it records one
\* snapshot, clears the selection, and leaves the cursor at column 0 of a
\* row of the buffer.
C21_RowsCut ==
  [][CursorCut =>
       LET kept == RowsWithoutCursor(lines, ranges, Len(lines))
       IN  /\ ret'
           /\ lines' = IF Len(kept) = 0 THEN << <<>> >> ELSE kept
           /\ Len(history') = historyIndex + 2
           /\ SubSeq(history', 1, historyIndex + 1)
                = SubSeq(history, 1, historyIndex + 1)
           /\ historyIndex' = historyIndex + 1
           /\ ranges' = <<>> /\ primaryIndex' = -1
           /\ cursor'.col = 0
           /\ cursor'.row >= 0 /\ cursor'.row < Len(lines')]_vars

\* Cursors on the first and the third of three rows were cut: the second
\* row is what is left, and the clipboard holds the two lines.
C21_Witness ==
  /\ op = "cut" /\ ret
  /\ history = << << <<"a">>, <<"b">>, <<"a", "b">> >> >>
  /\ lines = << <<"b">> >>
  /\ clip = [content |-> <<"a", NL, "a", "b">>, isLinewise |-> TRUE]
  /\ ranges = <<>>
  /\ cursor = [row |-> 0, col |-> 0]

\* C22: when loadFile or saveFile resolves false, lines, filename, modified,
\* history and historyIndex are as before the call; when loadFile resolves
\* true, modified is false, the history is empty and historyIndex is -1.
C22_FileOperations ==
  [][/\ (op' \in {"loadFile", "saveFile"} /\ ret' = FALSE
          => UNCHANGED <<lines, filename, modified, history, historyIndex>>)
     /\ (op' = "loadFile" /\ ret' = TRUE
          => modified' = FALSE /\ history' = <<>> /\ historyIndex' = -1)]_vars

\* saveFile failed on a buffer that was loaded from the other path and
\* edited.
C22_Witness ==
  /\ op = "saveFile" /\ ret = FALSE
  /\ filename = "b.txt"
  /\ modified
  /\ Len(history) > 0

\* The operations that report whether they had an effect.
ReportingOps == {"deleteChar", "replaceRanges", "delete", "deleteBackward",
                 "deleteForward", "addNextOccurrence", "copy", "cut", "paste"}

\* C23: when deleteChar, replaceRanges, delete, deleteBackward,
\* deleteForward or addNextOccurrence returns false, or copyFromEditor,
\* cutFromEditor or pasteToEditor returns success false, lines, modified,
\* history and historyIndex are as before the call: a snapshot is taken only
\* by a call that reports success.
C23_NoEffect ==
  [][op' \in ReportingOps /\ ret' = FALSE => UNCHANGED bufVars]_vars

\* pasteToEditor reported no effect with a text on the clipboard and two
\* cursors in a loaded buffer.
C23_Witness ==
  /\ op = "paste" /\ ret = FALSE
  /\ Len(clip.content) > 0
  /\ Len(ranges) = 2
  /\ Len(lines) = 2
  /\ filename = DefaultPath

\* C24: on an empty range set delete, replaceRanges, deleteBackward and
\* deleteForward return false and update() returns without effect: lines,
\* modified, history, historyIndex, cursor, ranges (still empty) and
\* primaryIndex (still -1) are as before the call.
C24_EmptySet ==
  [][Len(ranges) = 0
       /\ op' \in {"delete", "replaceRanges", "deleteBackward",
                   "deleteForward", "update"}
     => /\ op' # "update" => ret' = FALSE
        /\ UNCHANGED <<lines, modified, history, historyIndex, cursor>>
        /\ ranges' = <<>>
        /\ primaryIndex = -1 /\ primaryIndex' = -1]_vars

\* update() was called with nothing selected and the cursor inside a line
\* of a loaded buffer.
C24_Witness ==
  /\ op = "update"
  /\ ranges = <<>>
  /\ filename = DefaultPath
  /\ cursor.col > 0

\* The index (from 1) at which the stable ascending sort puts the primary
\* range of the set.
orderedIndex(rs, pidx) ==
  Cardinality({j \in 1..Len(rs) :
                 \/ compareRanges(rs[j], rs[pidx + 1]) < 0
                 \/ compareRanges(rs[j], rs[pidx + 1]) = 0 /\ j <= pidx + 1})

\* The collapsed range replaceRanges makes for the primary range of the set.
producedFromPrimary(ls, rs, pidx, cb) ==
  newRanges(applyActions(ls, makeActions(rs, cb), Len(rs)).pos)[orderedIndex(rs, pidx)]

\* C25: after replaceRanges returned true on a set with a primary range,
\* the new primary range is the collapsed range made for that range, and
\* the cursor is at its head, clamped.
C25_PrimaryFollows ==
  [][(/\ op' \in ReplaceOps /\ ret'
      /\ hasPrimaryRange(ranges, primaryIndex)
      /\ SpansInBuffer(lines, makeActions(ranges, arg'))) =>
       /\ hasPrimaryRange(ranges', primaryIndex')
       /\ primaryRange(ranges', primaryIndex')
            = producedFromPrimary(lines, ranges, primaryIndex, arg')
       /\ cursor' = clamp([row |-> primaryRange(ranges', primaryIndex').hr,
                           col |-> primaryRange(ranges', primaryIndex').hc],
                          lines')]_vars

\* A replaceRanges step that returned true on a set whose primary range the
\* callback skipped, or gave an empty text for an empty span.
PrimarySkipped ==
  /\ op' \in ReplaceOps /\ ret'
  /\ hasPrimaryRange(ranges, primaryIndex)
  /\ ~makeActions(ranges, arg')[orderedIndex(ranges, primaryIndex)].perform

withPrimaryBounds(rs, pidx) ==
  {i \in 1..Len(rs) :
     getBounds(getOrderedRanges(rs)[i]) = getBounds(primaryRange(rs, pidx))}

startOffset(ls, r) == offsetOf(ls, getBounds(r).startRow, getBounds(r).startCol)
endOffset(ls, r) == offsetOf(ls, getBounds(r).endRow, getBounds(r).endCol)

\* The offsets of the characters inside a non-empty range.
Selected(ls, rs) ==
  {o \in 0..(Len(Join(ls)) - 1) :
     \E i \in 1..Len(rs) :
       startOffset(ls, rs[i]) <= o /\ o < endOffset(ls, rs[i])}

\* A delete() step on ranges at positions of the buffer of which at least
\* one is not empty and no two that are not empty have a character in
\* common.
DeleteSelected ==
  /\ op' = "delete"
  /\ \E i \in 1..Len(ranges) : ~isEmpty(ranges[i])
  /\ \A i \in 1..Len(ranges) :
       /\ inBuffer(lines, ranges[i].ar, ranges[i].ac)
       /\ inBuffer(lines, ranges[i].hr, ranges[i].hc)
  /\ \A i, j \in 1..Len(ranges) :
       i < j => ~(/\ startOffset(lines, ranges[i]) < endOffset(lines, ranges[j])
                  /\ startOffset(lines, ranges[j]) < endOffset(lines, ranges[i]))

\* C27: delete() on a set with a non-empty range, of which no two non-empty
\* ranges overlap, returns true, records one snapshot, sets modified, and
\* leaves the text of the buffer without the characters of the non-empty
\* ranges.
C27_ContentRemoved ==
  [][DeleteSelected =>
       /\ ret'
       /\ history' = Snapshot(history, historyIndex, lines)
       /\ historyIndex' = Len(history') - 1
       /\ modified'
       /\ lines' = Split(Without(Join(lines), Selected(lines, ranges),
                                 Len(Join(lines))))]_vars

\* "b" and the line break behind it, and the "b" of the next row, were
\* deleted from "ab", "ab".
C27_Witness ==
  /\ op = "delete" /\ ret
  /\ history = << << <<"a", "b">>, <<"a", "b">> >> >>
  /\ lines = << <<"a", "a">> >>
  /\ modified

\* C28 as stated: after delete() returned true on such a set with a primary
\* range the cursor is at the position, in the resulting buffer, at which
\* the content of the primary range began: the start of that range, moved
\* back by the characters removed before it.
C28_CursorAtStart ==
  [][(DeleteSelected /\ ret' /\ hasPrimaryRange(ranges, primaryIndex)) =>
       LET start == startOffset(lines, primaryRange(ranges, primaryIndex))
           before == Cardinality({o \in Selected(lines, ranges) : o < start})
       IN  /\ ~active(ranges')
           /\ cursor' = positionOf(lines', start - before)]_vars

\* C29: every call of addNextOccurrence returns: a call that has entered
\* its loops leaves them, with loop as without, whatever the buffer, the
\* ranges and the text it looks for.
C29_Terminates == (scan.phase # "idle") ~> (scan.phase = "idle")

\* A call with loop returned false at the end of the document: the scan
\* from the document start passed over the start of the primary range, at
\* column 1, when it went on behind the visited match at column 0.
C29_Witness ==
  /\ op = "addNextOccurrence" /\ ret = FALSE
  /\ arg = <<TRUE>>
  /\ scan.phase = "idle"
  /\ lines = << <<"a", "a", "a", "a", "a">> >>
  /\ primaryIndex = 1
  /\ ranges = <<Range(0, 0, 0, 2), Range(0, 1, 0, 3), Range(0, 2, 0, 4),
                Range(0, 3, 0, 5)>>

\* C30 as stated: selectWord with the cursor at a position of the buffer
\* returns true with one non-empty range on the cursor's row, the cursor at
\* its end, and the range a maximal run of word characters (which holds the
\* cursor's column when a word character is there), or returns false with
\* the selection cleared.
C30_WordSelected ==
  [][(op' = "selectWord" /\ inBuffer(lines, cursor.row, cursor.col)) =>
       IF ret'
       THEN /\ Len(ranges') = 1 /\ primaryIndex' = 0
            /\ ranges'[1].ar = cursor.row /\ ranges'[1].hr = cursor.row
            /\ ranges'[1].ac < ranges'[1].hc
            /\ cursor' = [row |-> cursor.row, col |-> ranges'[1].hc]
            /\ \A i \in ranges'[1].ac..(ranges'[1].hc - 1) :
                 getLine(lines, cursor.row)[i + 1] \in WordChars
            /\ ranges'[1].ac > 0 =>
                 getLine(lines, cursor.row)[ranges'[1].ac] \notin WordChars
            /\ ranges'[1].hc < Len(getLine(lines, cursor.row)) =>
                 getLine(lines, cursor.row)[ranges'[1].hc + 1] \notin WordChars
            /\ (/\ cursor.col < Len(getLine(lines, cursor.row))
                /\ getLine(lines, cursor.row)[cursor.col + 1] \in WordChars) =>
                 ranges'[1].ac <= cursor.col /\ cursor.col < ranges'[1].hc
       ELSE ranges' = <<>> /\ primaryIndex' = -1]_vars

\* C31: once a loadFile or a saveFile has succeeded, whatever synchronous
\* operations follow (buffer primitives, the edits of the selection, cut and
\* paste, swapLines and deleteForward of the editor, undo and redo): when
\* the text of the buffer differs from the text that was loaded or saved
\* last, the modified flag is true.
C31_ModifiedSet ==
  (synced.ever /\ Join(lines) # synced.content) => modified

\* A key made the first edit after a load, or after a save: a snapshot was
\* taken and the text is no longer the one on the file.
C31_Witness ==
  /\ op \in {"editor.deleteForward", "editor.swapLines", "handleCut",
             "handlePaste", "editor.insertChar"}
  /\ ret
  /\ synced.ever /\ Join(lines) # synced.content
  /\ modified

\* A loadFile or a saveFile call is between its start and its completion.
InFlight(ts) == {i \in 1..Len(ts) : ts[i].pc \in {"loadFile", "saveFile"}}

\* C32: the editor applies no buffer mutation between the start and the
\* completion of a Buffer.loadFile or Buffer.saveFile call (from run, open,
\* openFromSearch or save): while such a call is in flight the lines and the
\* history change only by the completion of the one call that is in flight.
C32_Serialized ==
  [][InFlight(tasks) # {} =>
       \/ <<lines, history, historyIndex>>' = <<lines, history, historyIndex>>
       \/ op' = "readFile" /\ Cardinality(InFlight(tasks)) = 1]_vars

\* The operations of the editor a key starts that move the cursor or edit at
\* it.
CursorOps ==
  {"editor.moveCursor", "handleSelectionMove", "editor.insertChar",
   "editor.insertNewline", "editor.deleteChar", "editor.deleteForward",
   "editor.swapLines", "handleCut", "handlePaste",
   "editor.selectNextOccurrence", "editor.undo", "editor.redo"}

\* Cursor values in and around the buffer.
AnyCursors == [row : -1..(MaxRows + 1), col : -1..(MaxCols + 1)]

\* C33: every editor-level operation (cursor movement, insertChar,
\* insertNewline, deleteChar, deleteForward, swapLines, cut, paste,
\* selectNextOccurrence, undo, redo) that starts with the cursor at a valid
\* Position leaves the cursor at a valid Position of the buffer it leaves;
\* and Cursor.clamp() brings any cursor value to a valid Position.
C33_CursorValid ==
  [][/\ (op' \in CursorOps /\ isPosition(lines, cursor.row, cursor.col))
          => isPosition(lines', cursor'.row, cursor'.col)
     /\ \A c \in AnyCursors :
          LET d == clamp(c, lines') IN isPosition(lines', d.row, d.col)]_vars

\* An undo of the editor took back the text the cursor was behind: the
\* cursor was clamped into the shorter line.
C33_Witness ==
  /\ op = "editor.undo" /\ ret
  /\ isPosition(lines, cursor.row, cursor.col)
  /\ cursor.col = Len(getLine(lines, cursor.row))
  /\ historyIndex < Len(history) - 1

\* C34: after an operation that edits the buffer while a selection is active
\* (replaceRanges, deleteBackward and deleteForward, paste and typing at the
\* cursors) and after undo and redo, the anchor and the head of every range
\* of the selection are valid Positions of the buffer.
C34_RangesValid ==
  [][(/\ op' \in {"editor.insertChar", "editor.deleteChar",
                  "editor.deleteForward", "handlePaste", "editor.undo",
                  "editor.redo"}
      /\ ret'
      /\ ranges # <<>>
      /\ \A i \in 1..Len(ranges) :
           /\ isPosition(lines, ranges[i].ar, ranges[i].ac)
           /\ isPosition(lines, ranges[i].hr, ranges[i].hc))
       => \A i \in 1..Len(ranges') :
            /\ isPosition(lines', ranges'[i].ar, ranges'[i].ac)
            /\ isPosition(lines', ranges'[i].hr, ranges'[i].hc)]_vars

\* C35: when undo() returns true, a redo() that follows it immediately
\* returns true and restores the lines the buffer had just before the undo,
\* whatever mix of primitives, replaceRanges and delete calls, cuts and
\* pastes made the history.
C35_UndoRedo ==
  [][(op' = "undo" /\ ret') =>
       /\ redo(history', historyIndex', lines').ret
       /\ redo(history', historyIndex', lines').lines = lines]_vars

\* C36: after every successful insertChar, deleteChar and insertLine of the
\* Buffer, the first edit on a fresh or freshly loaded buffer included, one
\* undo() returns true and restores the lines the buffer had before the edit.
C36_PrimitiveUndone ==
  [][(op' \in {"insertChar", "deleteChar", "insertLine"} /\ ret') =>
       /\ undo(history', historyIndex', lines').ret
       /\ undo(history', historyIndex', lines').lines = lines]_vars

\* The selection is one non-empty range whose anchor and head are Positions.
oneRangeInside(ls, rs) ==
  /\ Len(rs) = 1
  /\ ~isEmpty(rs[1])
  /\ isPosition(ls, rs[1].ar, rs[1].ac)
  /\ isPosition(ls, rs[1].hr, rs[1].hc)

\* C37: with a single non-empty range inside the buffer, cutFromEditor
\* followed by pasteToEditor at the cursor the cut left restores the lines
\* exactly and leaves the cursor at the end of the text that was put back.
C37_RoundTrip ==
  [][/\ (op' = "cut" /\ oneRangeInside(lines, ranges)) =>
          LET p == pasteToEditor(lines', history', historyIndex', modified',
                                 ranges', primaryIndex', cursor', clip')
          IN  /\ ret'
              /\ p.ret
              /\ p.lines = lines
              /\ p.cursor.row = getBounds(ranges[1]).endRow
              /\ p.cursor.col = getBounds(ranges[1]).endCol
     /\ (op = "cut" /\ ret /\ ~clip.isLinewise /\ op' = "paste") =>
          /\ ret'
          /\ lines' = history[historyIndex + 1]]_vars

\* A text that spans a line break was cut and pasted back: the buffer has
\* the lines it had before the cut, which are not those between the two.
C37_Witness ==
  /\ op = "paste" /\ ret
  /\ historyIndex = 1
  /\ lines = history[1]
  /\ lines # history[2]
  /\ Len(history[2]) < Len(lines)
  /\ ~clip.isLinewise
  /\ cursor.row > 0

\* C38: a cut with cursors only (two or more empty ranges, each at a Position
\* of the buffer) puts as many lines on the clipboard as it deletes rows from the buffer, also when two
\* cursors are on one row.
C38_LinesMatch ==
  [][(/\ op' = "cut" /\ ret'
      /\ Len(ranges) > 1
      /\ \A i \in 1..Len(ranges) :
           /\ isEmpty(ranges[i])
           /\ isPosition(lines, ranges[i].hr, ranges[i].hc)) =>
       Len(Split(clip'.content))
         = Len(lines) - Len(spliceRows(lines, uniqueRows(ranges)))]_vars

\* C39: unsaved modifications are never lost without 'discard'. quit exits,
\* and open and openFromSearch replace the buffer, only when the buffer was
\* not modified, when the confirmation resolved to 'discard', or when it
\* resolved to 'save' and the save completed successfully; a confirmation
\* that is cancelled, closed or rejected aborts the operation.
C39_NoLoss ==
  [][(\/ exited' /\ ~exited
      \/ op' = "readFile" /\ ret' /\ arg'[1] \in {"open", "openFromSearch"})
       => \/ arg'[2] \in {"none", "discard"}
          \/ arg'[2] = "save" /\ arg'[3] = "saved"]_vars

\* ----------------------------------------------------------- specification

Fits(ls) == Len(ls) <= MaxRows /\ \A i \in 1..Len(ls) : Len(ls[i]) <= MaxCols

\* A range that went stale keeps moving right with every insertion at it:
\* the explorations follow it to the bounds of the buffer.
RangesFit(rs) ==
  \A i \in 1..Len(rs) :
    /\ rs[i].ar <= MaxRows /\ rs[i].hr <= MaxRows
    /\ rs[i].ac <= MaxCols /\ rs[i].hc <= MaxCols

\* A step is explored when the history has room for a snapshot behind
\* historyIndex, or when the step adds no entry.
Room(n) == Len(history') <= Len(history) \/ historyIndex + 2 <= n

InBounds == Fits(lines') /\ RangesFit(ranges') /\ Room(MaxHist)

Callbacks(n) == [1..n -> {Null} \cup {Text(t) : t \in Texts}]

FewCallbacks(n) == [1..n -> {Null, Text(<<"b">>)}]

\* Buffer primitives at the cursor, undo and redo, load (while nothing is
\* selected), and the selection edits on a few range lists: histories of
\* several snapshots.
Next ==
  \/ \E content \in FileContents :
       ~active(ranges) /\ LoadFile(content) /\ InBounds
  \/ LoadFileFails /\ InBounds
  \/ \E ch \in TypedChars : InsertChar(cursor.row, cursor.col, ch) /\ InBounds
  \/ DeleteChar(cursor.row, cursor.col) /\ InBounds
  \/ InsertLine(cursor.row, cursor.col) /\ InBounds
  \/ Undo /\ InBounds
  \/ Redo /\ InBounds
  \/ Clear /\ InBounds
  \/ \E rs \in FewRangeLists : SetRanges(rs, Len(rs) - 1) /\ InBounds
  \/ \E cb \in FewCallbacks(Len(ranges)) : ReplaceRanges(cb) /\ InBounds
  \/ DeleteBackward /\ InBounds
  \/ DeleteForward /\ InBounds
  \/ Delete /\ InBounds

Spec == Init /\ [][Next]_vars

ClipInBounds ==
  /\ Len(lines') <= ClipRows
  /\ \A i \in 1..Len(lines') : Len(lines'[i]) <= ClipCols
  /\ \A i \in 1..Len(ranges') :
       /\ ranges'[i].ar <= ClipRows /\ ranges'[i].hr <= ClipRows
       /\ ranges'[i].ac <= ClipCols /\ ranges'[i].hc <= ClipCols
  /\ cursor'.row <= ClipRows /\ cursor'.col <= ClipCols
  /\ Len(clip'.content) <= ClipLen
  /\ Room(MaxHist)

\* Every operation that changes the buffer, the clipboard's cut and paste
\* among them, on a small buffer: a range list is set where an edit can
\* follow, and replaceRanges gives every range the same text.
NextClip ==
  \/ \E content \in FileContents :
       ~active(ranges) /\ LoadFile(content) /\ ClipInBounds
  \/ LoadFileFails /\ ClipInBounds
  \/ \E ch \in TypedChars :
       InsertChar(cursor.row, cursor.col, ch) /\ ClipInBounds
  \/ DeleteChar(cursor.row, cursor.col) /\ ClipInBounds
  \/ InsertLine(cursor.row, cursor.col) /\ ClipInBounds
  \/ Undo /\ ClipInBounds
  \/ Redo /\ ClipInBounds
  \/ \E rs \in FewRangeLists :
       historyIndex + 2 <= MaxHist /\ SetRanges(rs, Len(rs) - 1) /\ ClipInBounds
  \/ ReplaceRanges([i \in 1..Len(ranges) |-> Text(<<"b">>)]) /\ ClipInBounds
  \/ DeleteBackward /\ ClipInBounds
  \/ DeleteForward /\ ClipInBounds
  \/ Delete /\ ClipInBounds
  \/ CopyFromEditor /\ ClipInBounds
  \/ CutFromEditor /\ ClipInBounds
  \/ PasteToEditor /\ ClipInBounds

SpecClip == Init /\ [][NextClip]_vars

RepInBounds == Fits(lines') /\ RangesFit(ranges') /\ Room(RepHist)

\* One selection edit on a loaded buffer, over every range list and every
\* callback: a file is loaded before anything is selected or edited, and a
\* range list is set where an edit can follow.
NextRep ==
  \/ \E content \in FileContents :
       Len(history) = 0 /\ ~active(ranges) /\ LoadFile(content) /\ RepInBounds
  \/ Clear /\ RepInBounds
  \/ \E rs \in RangeLists : \E pidx \in 0..(Len(rs) - 1) :
       Len(history) < RepHist /\ SetRanges(rs, pidx) /\ RepInBounds
  \/ \E cb \in Callbacks(Len(ranges)) : ReplaceRanges(cb) /\ RepInBounds
  \/ DeleteBackward /\ RepInBounds
  \/ DeleteForward /\ RepInBounds
  \/ Delete /\ RepInBounds

SpecRep == Init /\ [][NextRep]_vars

\* The selection on a loaded buffer that is not edited: every operation that
\* changes the range set or moves the cursor.
NextSel ==
  \/ \E content \in FileContents : LoadFile(content)
  \/ MoveLeft
  \/ MoveRight
  \/ Clear
  \/ Start
  \/ Update
  \/ \E p \in Positions(lines) : ExtendTo(p.row, p.col)
  \/ \E rs \in RangeLists : \E pidx \in 0..(Len(rs) - 1) : SetRanges(rs, pidx)
  \/ \E mp \in BOOLEAN : Len(ranges) < MaxRanges /\ AddRange(fromCursor(cursor), mp)
  \/ SelectLine(cursor.row)
  \/ SelectAll

SpecSel == Init /\ [][NextSel]_vars

\* The buffer alone: its primitives at every position, undo, redo and load.
NextBuf ==
  \/ \E content \in FileContents : LoadFile(content) /\ InBounds
  \/ LoadFileFails /\ InBounds
  \/ \E p \in Positions(lines), ch \in TypedChars :
       InsertChar(p.row, p.col, ch) /\ InBounds
  \/ \E p \in Positions(lines) : DeleteChar(p.row, p.col) /\ InBounds
  \/ \E p \in Positions(lines) : InsertLine(p.row, p.col) /\ InBounds
  \/ Undo /\ InBounds
  \/ Redo /\ InBounds

SpecBuf == Init /\ [][NextBuf]_vars

\* Paths given to loadFile and saveFile: two files, the empty path, and no
\* argument.
FilePaths == {DefaultPath, "b.txt"}

SavePaths == FilePaths \cup {"", undefined}

\* Files are loaded and saved, with success and without, between edits at
\* the cursor, undo and redo.
NextFile ==
  \/ \E filepath \in FilePaths, content \in FileContents, resolves \in BOOLEAN :
       LoadFileFrom(filepath, content, resolves) /\ InBounds
  \/ \E filepath \in SavePaths, resolves \in BOOLEAN :
       SaveFile(filepath, resolves) /\ InBounds
  \/ \E ch \in TypedChars : InsertChar(cursor.row, cursor.col, ch) /\ InBounds
  \/ DeleteChar(cursor.row, cursor.col) /\ InBounds
  \/ InsertLine(cursor.row, cursor.col) /\ InBounds
  \/ MoveRight /\ InBounds
  \/ Undo /\ InBounds
  \/ Redo /\ InBounds

SpecFile == Init /\ [][NextFile]_vars

CapInBounds == Len(lines'[1]) <= CapLen

\* One line typed past the history cap, with undo and redo.
NextCap ==
  \/ \E ch \in TypedChars : InsertChar(0, 0, ch) /\ CapInBounds
  \/ Undo /\ CapInBounds
  \/ Redo /\ CapInBounds

SpecCap == Init /\ [][NextCap]_vars

\* The selection on a file in which texts occur more than once: a range list
\* is set or a word is selected, and occurrences are added.
NextOcc ==
  \/ \E content \in OccFiles : ~active(ranges) /\ LoadFile(content)
  \/ MoveLeft
  \/ MoveRight
  \/ Clear
  \/ \E rs \in OccRangeLists : \E pidx \in 0..(Len(rs) - 1) : SetRanges(rs, pidx)
  \/ \E loop \in BOOLEAN : AddNextOccurrence(loop)

SpecOcc == Init /\ [][NextOcc]_vars

\* One occurrence is selected, as a range or as the word at the cursor, and
\* occurrences are added to it, with and without loop.
NextOccOne ==
  \/ \E content \in OccFiles : ~active(ranges) /\ LoadFile(content)
  \/ MoveLeft
  \/ MoveRight
  \/ Clear
  \/ \E rs \in OccSelections : SetRanges(rs, 0)
  \/ \E loop \in BOOLEAN : AddNextOccurrence(loop)

SpecOccOne == Init /\ [][NextOccOne]_vars

\* Range lists addNextOccurrence is called on: those of OccRangeLists, and
\* four selections of "aa" that overlap.
ScanRangeLists ==
  OccRangeLists \cup
  { <<Range(0, 0, 0, 2), Range(0, 1, 0, 3), Range(0, 2, 0, 4), Range(0, 3, 0, 5)>> }

\* addNextOccurrence taken one turn of its loops at a time: nothing else is
\* called while it runs.
NextScan ==
  \/ \E content \in OccFiles :
       scan.phase = "idle" /\ ~active(ranges) /\ LoadFile(content)
  \/ scan.phase = "idle" /\ Clear
  \/ \E rs \in ScanRangeLists : \E pidx \in 0..(Len(rs) - 1) :
       scan.phase = "idle" /\ SetRanges(rs, pidx)
  \/ \E loop \in BOOLEAN : BeginScan(loop)
  \/ SearchForwardStep
  \/ SearchWrappedStep

SpecScan == Init /\ [][NextScan]_vars

\* The call that runs takes its next turn.
SpecScanLive ==
  SpecScan /\ WF_vars(SearchForwardStep) /\ WF_vars(SearchWrappedStep)

\* Files with words, blanks between, before and behind them, and an empty
\* line.
WordFiles ==
  OccFiles \cup { <<" ", "a", "b">>, <<"a", "b", " ", NL, NL, " ", " ">> }

\* The word at the cursor is selected, at every position of a loaded file.
NextWord ==
  \/ \E content \in WordFiles : ~active(ranges) /\ LoadFile(content)
  \/ MoveLeft
  \/ MoveRight
  \/ Clear
  \/ SelectWord

SpecWord == Init /\ [][NextWord]_vars

\* One paste on a loaded buffer: the cursor is moved, a range list is set or
\* cleared, a text is put on the clipboard by copy() or copyFromEditor, and
\* pasteToEditor is called.
NextPaste ==
  \/ \E content \in FileContents :
       Len(history) = 0 /\ ~active(ranges) /\ LoadFile(content)
  \/ Len(history) = 0 /\ MoveRight
  \/ Len(history) = 0 /\ Clear
  \/ \E rs \in PasteRangeLists :
       Len(history) = 0 /\ SetRanges(rs, Len(rs) - 1)
  \/ \E text \in ClipTexts, lw \in BOOLEAN : Len(history) = 0 /\ Copy(text, lw)
  \/ Len(history) = 0 /\ CopyFromEditor
  \/ Len(history) = 0 /\ PasteToEditor

SpecPaste == Init /\ [][NextPaste]_vars

\* The operations that arrange what an edit finds.
ArrangeOps == {"new", "loadFile", "moveRight", "clear", "setRanges", "copyText"}

\* One call of an operation that can change the buffer or reports whether it
\* had an effect, on a loaded buffer: before it the cursor is moved, ranges
\* are set or cleared and a text is put on the clipboard, and nothing is
\* called after it.
NextEdit ==
  \/ \E content \in EditFiles :
       op \in ArrangeOps /\ ~active(ranges) /\ LoadFile(content)
  \/ op \in ArrangeOps /\ MoveRight
  \/ op \in ArrangeOps /\ Clear
  \/ \E rs \in EditRangeLists : \E pidx \in 0..(Len(rs) - 1) :
       op \in ArrangeOps /\ SetRanges(rs, pidx)
  \/ \E text \in EditClipTexts : op \in ArrangeOps /\ Copy(text, FALSE)
  \/ op \in ArrangeOps /\ Update
  \/ op \in ArrangeOps /\ CopyFromEditor
  \/ op \in ArrangeOps /\ DeleteChar(cursor.row, cursor.col)
  \/ \E cb \in FewCallbacks(Len(ranges)) : op \in ArrangeOps /\ ReplaceRanges(cb)
  \/ op \in ArrangeOps /\ DeleteBackward
  \/ op \in ArrangeOps /\ DeleteForward
  \/ op \in ArrangeOps /\ Delete
  \/ \E loop \in BOOLEAN : op \in ArrangeOps /\ AddNextOccurrence(loop)
  \/ op \in ArrangeOps /\ CutFromEditor
  \/ op \in ArrangeOps /\ PasteToEditor

SpecEdit == Init /\ [][NextEdit]_vars

RangePositions == [row : 0..RangeRows, col : 0..RangeCols]

\* A SelectionRange on its own: its anchor and head are set to every
\* position, its bounds are taken and every position is looked up.
NextRange ==
  \/ \E p \in RangePositions : SetAnchor(p.row, p.col)
  \/ \E p \in RangePositions : SetHead(p.row, p.col)
  \/ GetBounds
  \/ \E p \in RangePositions : Contains(p.row, p.col)

SpecRange == Init /\ [][NextRange]_vars

\* The files the editor is started on: two lines, and words between blanks.
KeyFiles == { <<"a", "b", NL, "a">>, <<"a", " ", "a">> }

\* What the keys type: a character, and the two blanks of the tab key.
KeyChars == { <<"a">>, <<" ", " ">> }

\* The range sets a key finds: a cursor (inside and at the end of a line), a
\* selection (forward, backward, over the line break), two cursors (on one
\* row, on two rows), a selection with a cursor, two selections of the same
\* text, a selection on the second row, and a cursor behind text that was
\* typed there.
KeyRangeLists ==
  { <<Range(0, 1, 0, 1)>>, <<Range(0, 3, 0, 3)>>,
    <<Range(0, 0, 0, 1)>>, <<Range(0, 2, 0, 1)>>, <<Range(0, 1, 1, 1)>>,
    <<Range(0, 0, 0, 0), Range(0, 1, 0, 1)>>,
    <<Range(0, 1, 0, 1), Range(1, 1, 1, 1)>>,
    <<Range(0, 0, 0, 1), Range(1, 0, 1, 0)>>,
    <<Range(0, 0, 0, 1), Range(1, 0, 1, 1)>>,
    <<Range(1, 0, 1, 1)>>, <<Range(1, 3, 1, 3)>> }

\* The texts a key finds on the clipboard.
KeyClipTexts == { <<"b">>, <<NL, "b">> }

\* The calls that bring the buffer and the cursor into the state a key finds
\* them in, and all calls before a key.
BeforeRanges == {"loadFile", "moveRight", "insertChar", "undo", "saveFile"}
BeforeKey == BeforeRanges \cup {"setRanges", "copyText"}

\* A key is pressed: the calls before it are made, and the cursor is at a
\* Position.
KeyReady == op \in BeforeKey /\ isPosition(lines, cursor.row, cursor.col)

\* Characters are typed one after the other, and then taken back and redone.
Typing == {"editor.insertChar", "editor.undo", "editor.redo"}

TypingReady ==
  op \in BeforeKey \cup Typing /\ isPosition(lines, cursor.row, cursor.col)

\* The editor in the states a key may find it in (a file was loaded, the
\* cursor moved, characters were inserted and undone, the buffer was saved,
\* ranges were set, a text was copied), and then every key handler that
\* works on the buffer, the cursor, the selection and the clipboard.
NextKeys ==
  \/ \E content \in KeyFiles : op = "new" /\ LoadFile(content)
  \/ op \in {"loadFile", "moveRight"} /\ MoveRight
  \/ /\ op \in BeforeRanges
     /\ \E ch \in TypedChars : InsertChar(cursor.row, cursor.col, ch)
     /\ InBounds
  \/ op \in BeforeRanges /\ Undo /\ InBounds
  \/ /\ op \in {"insertChar", "undo"}
     /\ \E resolves \in BOOLEAN : SaveFile(undefined, resolves)
  \/ /\ op \in BeforeRanges
     /\ \E rs \in KeyRangeLists : \E pidx \in {0, Len(rs) - 1} :
          SetRanges(rs, pidx)
  \/ /\ op \in BeforeRanges \cup {"setRanges"}
     /\ \E text \in KeyClipTexts : \E isLinewise \in BOOLEAN :
          Copy(text, isLinewise)
  \/ \E d \in Directions : KeyReady /\ MoveCursor(d)
  \/ \E d \in Directions : KeyReady /\ HandleSelectionMove(d)
  \/ \E ch \in KeyChars : TypingReady /\ EditorInsertChar(ch) /\ InBounds
  \/ KeyReady /\ InsertNewline
  \/ KeyReady /\ EditorDeleteChar
  \/ KeyReady /\ EditorDeleteForward
  \/ \E d \in {"up", "down"} : KeyReady /\ SwapLines(d)
  \/ TypingReady /\ EditorUndo
  \/ TypingReady /\ EditorRedo
  \/ KeyReady /\ SelectNextOccurrence
  \/ KeyReady /\ HandleSelectionToggle
  \/ KeyReady /\ HandleSelectAll
  \/ KeyReady /\ HandleSelectLine
  \/ KeyReady /\ HandleEscape
  \/ KeyReady /\ HandleCopy
  \/ KeyReady /\ HandleCut
  \/ KeyReady /\ HandlePaste

SpecKeys == Init /\ [][NextKeys]_vars

\* The names the prompts resolve with: none (the prompt was cancelled), and
\* a file name.
PromptValues == {"", "b.txt"}

\* The editor with its files: started on a file or on an empty buffer, keys
\* that type and undo, and the keys, the overlays, the prompts and the file
\* system calls of save, open, the file search and quit.
NextSession ==
  \/ Run(DefaultPath)
  \/ \E ch \in TypedChars : EditorInsertChar(ch) /\ InBounds
  \/ EditorUndo
  \/ Save
  \/ Open
  \/ HandleQuit
  \/ HandleFileSearch
  \/ HandleEscape
  \/ OpenFromSearch("b.txt")
  \/ \E action \in {"save", "discard", "cancel"} : ConfirmResolves(action)
  \/ \E value \in PromptValues : PromptSaveResolves(value)
  \/ \E value \in PromptValues : PromptOpenResolves(value)
  \/ \E resolves \in BOOLEAN : WriteFileCompletes(resolves)
  \/ \E content \in KeyFiles : \E resolves \in BOOLEAN :
       ReadFileCompletes(content, resolves)

SpecSession == Init /\ [][NextSession]_vars

\* The single ranges a cut finds: every anchor and every head in the buffer.
RoundRanges(ls) ==
  { <<Range(a.row, a.col, h.row, h.col)>> : a \in Positions(ls),
                                            h \in Positions(ls) }

\* A cut and the paste that follows it: a file is loaded, a range is set,
\* the selection is cut and the clipboard is pasted at the cursor.
NextRound ==
  \/ \E content \in EditFiles : op = "new" /\ LoadFile(content)
  \/ \E rs \in RoundRanges(lines) : op = "loadFile" /\ SetRanges(rs, 0)
  \/ op = "setRanges" /\ CutFromEditor
  \/ op = "cut" /\ PasteToEditor

SpecRound == Init /\ [][NextRound]_vars

====
